---- MODULE Spec2Model ----
(***************************************************************************)
(* Model of Tensile/KernelWriterAssembly.py: the RegisterPool allocator    *)
(* (class RegisterPool) and the end of kernel generation                   *)
(* (KernelWriterAssembly.functionSuffix).                                  *)
(*                                                                         *)
(* Python lists are 0-indexed; a pool list is a TLA+ sequence whose        *)
(* element for Python index i sits at position i+1.  All indices named in  *)
(* the formulas below are Python indices.  Register.tag is a diagnostic    *)
(* label that no control flow reads; it is not part of the state.          *)
(***************************************************************************)
EXTENDS Integers, Sequences, FiniteSets, Bags, TLC

\* ---- bounds of the model ----
\* largest pool length the operations are allowed to reach
MaxPool == 4
\* largest size argument of add / remove / checkOut
MaxReq == 2
\* alignments are drawn from 1..MaxAlign
MaxAlign == 2
\* RegisterPool(size, ...) is constructed with size in 0..MaxInit
MaxInit == 1
\* kernel generation: largest pool length, largest size argument, and
\* totalVgprs in 1..KMaxInit
KMaxPool == 3
KMaxReq == 2
MaxWidthQ == 17
MaxStride == 4
MaxIter == 9
MaxGSU == 4
NWriters == 2
MaxPacked == 2
MaxDivisor == 7
BudgetSlack == 2
MaxSgprPool == 6
MaxElements == 2
MaxBatches == 2
MaxCnt == 2
MaxOutstanding == 3
MaxAvi == 2
MaxSrdSteps == 3
MaxSizingPool == 4
MaxSgprLimit == 2
KMaxInit == 1

\* ---- KernelWriterAssembly limits (__init__) ----
maxVgprs == 256
maxSgprs == 102

\* ---- RegisterPool.Status ----
Unavailable == 0
Available == 1
InUse == 2

\* ---- state ----
\* rp      : the RegisterPool object under test
\*             pool                   list of slot statuses
\*             checkOutSize           dict start -> size
\*             defaultPreventOverflow 0 / 1
\* call    : the most recent method call on rp and its outcome
\* live    : history: the bag of ranges [start, size] returned by a checkout
\*           for which no checkIn(start) has been called since
\* removed : history: the indices a remove call covered and no add call
\*           covered since (recorded by the RemoveHistory specification)
\* kernel  : one KernelWriterAssembly generating one kernel
VARIABLES rp, call, live, removed, kernel

vars == <<rp, call, live, removed, kernel>>

\* ---- helpers over Python lists ----
\* self.pool[i]
At(p, i) == p[i + 1]

\* a list of n copies of st
Fill(n, st) == [k \in 1..n |-> st]

Max(a, b) == IF a >= b THEN a ELSE b
Min(a, b) == IF a <= b THEN a ELSE b

\* Utils.roundUpToNearestMultiple(numToRound, multiple)
roundUpToNearestMultiple(numToRound, multiple) ==
  ((numToRound + multiple - 1) \div multiple) * multiple

\* RegisterPool.__init__(size, type, defaultPreventOverflow)
RegisterPoolInit(n, dpo) ==
  [pool |-> Fill(n, Unavailable),
   checkOutSize |-> << >>,
   defaultPreventOverflow |-> dpo]

\* RegisterPool.size
size(self) == Len(self.pool)

\* RegisterPool.availableBlockAtEnd: walk reversed(self.pool) while Available
RECURSIVE availCntFrom(_, _)
availCntFrom(p, n) ==
  IF n = 0 THEN 0
  ELSE IF p[n] = Available THEN 1 + availCntFrom(p, n - 1)
  ELSE 0

availableBlockAtEnd(self) == availCntFrom(self.pool, Len(self.pool))

\* outcome of one method call: the object afterwards, the value returned
\* (-1: none), the exception raised ("none": returned normally), whether
\* printWarning was called, and the branch taken
Outcome(self, ret, exc, warned, path) ==
  [rp |-> self, ret |-> ret, exc |-> exc, warned |-> warned, path |-> path]

\* ---- RegisterPool.add(start, size) ----
\* new Registers are appended Unavailable (line 152) before the range is
\* marked (lines 154-157)
add(self, start, sz) ==
  LET newSize == start + sz
      oldSize == Len(self.pool)
      extra == IF newSize > oldSize THEN newSize - oldSize ELSE 0
      grown == self.pool \o Fill(extra, Unavailable)
      inRange(i) == i >= start /\ i < start + sz
      newPool == [k \in 1..Len(grown) |->
                    IF inRange(k - 1) /\ grown[k] = Unavailable
                    THEN Available ELSE grown[k]]
      warned == \E i \in start..(start + sz - 1) : At(grown, i) \in {Available, InUse}
  IN Outcome([self EXCEPT !.pool = newPool], -1, "none", warned, "add")

\* remove with every slot of the range forced Unavailable, InUse included
remove_forceAll(self, start, sz) ==
  LET oldSize == Len(self.pool)
      newPool == [k \in 1..oldSize |->
                    IF k - 1 >= start /\ k - 1 < start + sz
                    THEN Unavailable ELSE self.pool[k]]
  IN Outcome([self EXCEPT !.pool = newPool], -1,
             IF start + sz > oldSize THEN "IndexError" ELSE "none",
             TRUE, IF start + sz > oldSize THEN "pastEnd" ELSE "inside")

\* ---- RegisterPool.remove(start, size) ----
\* the loop indexes self.pool[i] for i = start, start+1, ...; the first i
\* with i >= len(self.pool) raises IndexError after the earlier slots
\* were processed
remove(self, start, sz) ==
  LET newSize == start + sz
      oldSize == Len(self.pool)
      inRange(i) == i >= start /\ i < start + sz
      newPool == [k \in 1..oldSize |->
                    IF inRange(k - 1) /\ self.pool[k] = Available
                    THEN Unavailable ELSE self.pool[k]]
      warned == \/ newSize > oldSize
                \/ \E i \in start..(Min(newSize, oldSize) - 1) :
                      At(self.pool, i) \in {Unavailable, InUse}
  IN Outcome([self EXCEPT !.pool = newPool], -1,
             IF newSize > oldSize THEN "IndexError" ELSE "none",
             warned, IF newSize > oldSize THEN "pastEnd" ELSE "inside")

\* ---- RegisterPool.checkOutAligned(size, alignment, tag, preventOverflow) ----
\* the availability test with only the first slot of the run examined
allAvailable_firstOnly(p, i, sz) == At(p, i) = Available

\* lines 206-211: are all of pool[i..i+size) Available
allAvailable(p, i, sz) == \A j \in 0..(sz - 1) : At(p, i + j) = Available

\* the scan without the alignment test of lines 200-201
RECURSIVE scanFound_unaligned(_, _, _, _)
scanFound_unaligned(p, sz, alignment, i) ==
  IF i >= Len(p) THEN -1
  ELSE IF i + sz > Len(p) THEN scanFound_unaligned(p, sz, alignment, i + 1)
  ELSE IF \A j \in 0..(sz - 1) : At(p, i + j) = Available THEN i
  ELSE scanFound_unaligned(p, sz, alignment, i + 1)

\* lines 198-216: the scan "for i in range(0, len(self.pool))" from index i
\* on; the value of found: the first index that passes the alignment test,
\* the space test and the availability test (-1: the loop ended without a
\* break).  The assignment i = j+1 of line 210 is overwritten by the for
\* statement's next value.
scanFound(p, sz, alignment, i) ==
  LET passing == {k \in i..(Len(p) - 1) :
                    /\ k % alignment = 0
                    /\ k + sz <= Len(p)
                    /\ allAvailable(p, k, sz)}
  IN IF passing = {} THEN -1
     ELSE CHOOSE k \in passing : \A m \in passing : k <= m

\* lines 234-241: "for i in range(len(self.pool)-1, 0, -1)": walk down from
\* the last index to index 1 (index 0 is not visited) while Available
RECURSIVE tailStart(_, _, _)
tailStart(p, i, start) ==
  IF i <= 0 THEN start
  ELSE IF At(p, i) = Available THEN tailStart(p, i - 1, i)
  ELSE start

\* the found path with only the first slot of the run marked InUse
checkOutFound_firstOnly(self, found, sz) ==
  LET newPool == [k \in 1..Len(self.pool) |->
                    IF k - 1 = found THEN InUse ELSE self.pool[k]]
  IN [rp |-> [self EXCEPT !.pool = newPool,
                          !.checkOutSize = (found :> sz) @@ self.checkOutSize],
      ret |-> found, exc |-> "none", warned |-> FALSE, path |-> "found"]

\* lines 219-228: success without overflowing
checkOutFound(self, found, sz) ==
  LET newPool == [k \in 1..Len(self.pool) |->
                    IF k - 1 >= found /\ k - 1 < found + sz THEN InUse ELSE self.pool[k]]
  IN Outcome([self EXCEPT !.pool = newPool,
                          !.checkOutSize = (found :> sz) @@ self.checkOutSize],
             found, "none", FALSE, "found")

\* lines 255-260: the status of the Register appended when the list has
\* length n
appended(n, start) == IF n < start THEN Available ELSE InUse

\* lines 234-265: need overflow (after the assert)
checkOutOverflow(self, sz, alignment) ==
  LET oldSize == Len(self.pool)
      start == roundUpToNearestMultiple(tailStart(self.pool, oldSize - 1, oldSize), alignment)
      newSize == start + sz
      overflow == newSize - oldSize
      extra == IF overflow > 0 THEN overflow ELSE 0
      marked == [k \in 1..oldSize |-> IF k - 1 >= start THEN InUse ELSE self.pool[k]]
      news == [k \in 1..extra |-> appended(oldSize + k - 1, start)]
  IN Outcome([self EXCEPT !.pool = marked \o news,
                          !.checkOutSize = (start :> sz) @@ self.checkOutSize],
             start, "none", FALSE, "overflow")

\* lines 194-195: preventOverflow == -1 selects the pool's default
effectivePreventOverflow(self, preventOverflow) ==
  IF preventOverflow = -1 THEN self.defaultPreventOverflow ELSE preventOverflow

\* checkOutAligned without the assert of line 233
checkOutAligned_noAssert(self, sz, alignment, preventOverflow) ==
  LET found == scanFound(self.pool, sz, alignment, 0)
  IN IF found > -1 THEN checkOutFound(self, found, sz)
     ELSE checkOutOverflow(self, sz, alignment)

checkOutAligned(self, sz, alignment, preventOverflow) ==
  LET found == scanFound(self.pool, sz, alignment, 0)
  IN IF found > -1 THEN checkOutFound(self, found, sz)
     ELSE IF effectivePreventOverflow(self, preventOverflow) # 0
          THEN Outcome(self, -1, "AssertionError", FALSE, "prevented")
          ELSE checkOutOverflow(self, sz, alignment)

\* ---- RegisterPool.checkOut(size, tag, preventOverflow) ----
checkOut(self, sz, preventOverflow) == checkOutAligned(self, sz, 1, preventOverflow)

\* checkIn that releases only the first slot of the recorded range
checkIn_firstOnly(self, start) ==
  IF start \in DOMAIN self.checkOutSize
  THEN LET newPool == [k \in 1..Len(self.pool) |->
                         IF k - 1 = start THEN Available ELSE self.pool[k]]
           rest == DOMAIN self.checkOutSize \ {start}
       IN Outcome([self EXCEPT !.pool = newPool,
                               !.checkOutSize = [k \in rest |-> self.checkOutSize[k]]],
                  -1, "none", FALSE, "checkedIn")
  ELSE IF start >= Len(self.pool)
       THEN Outcome(self, -1, "IndexError", FALSE, "neverCheckedOut")
       ELSE Outcome(self, -1, "none", TRUE, "neverCheckedOut")

\* ---- RegisterPool.checkIn(start) ----
\* the else branch formats self.pool[start].tag before printWarning is
\* called: IndexError when start is not an index of the list
checkIn(self, start) ==
  IF start \in DOMAIN self.checkOutSize
  THEN LET sz == self.checkOutSize[start]
           newPool == [k \in 1..Len(self.pool) |->
                         IF k - 1 >= start /\ k - 1 < start + sz
                         THEN Available ELSE self.pool[k]]
           rest == DOMAIN self.checkOutSize \ {start}
       IN Outcome([self EXCEPT !.pool = newPool,
                               !.checkOutSize = [k \in rest |-> self.checkOutSize[k]]],
                  -1, "none", FALSE, "checkedIn")
  ELSE IF start >= Len(self.pool)
       THEN Outcome(self, -1, "IndexError", FALSE, "neverCheckedOut")
       ELSE Outcome(self, -1, "none", TRUE, "neverCheckedOut")

\* ---- RegisterPool.checkFinalState() ----
checkFinalState(self) ==
  IF \E si \in 0..(Len(self.pool) - 1) : At(self.pool, si) = InUse
  THEN Outcome(self, -1, "RuntimeError", FALSE, "leak")
  ELSE Outcome(self, -1, "none", FALSE, "clean")

\* ---- the state machine of one RegisterPool ----
\* no kernel is being generated
IdleKernel ==
  [pc |-> "idle", vgprPool |-> RegisterPoolInit(0, 0), sgprPool |-> RegisterPoolInit(0, 1),
   overflowedResources |-> 0, exc |-> "none"]

NoCall ==
  [op |-> "init", size |-> -1, alignment |-> -1, preventOverflow |-> -1,
   ret |-> -1, exc |-> "none", warned |-> FALSE, path |-> "init"]

Init ==
  /\ \E n \in 0..MaxInit, dpo \in {0, 1} : rp = RegisterPoolInit(n, dpo)
  /\ call = NoCall
  /\ live = EmptyBag
  /\ removed = {}
  /\ kernel = IdleKernel

\* a call on rp and its outcome; sz, alignment and preventOverflow are
\* recorded for the checkouts (-1 otherwise)
Called(op, sz, alignment, po, out) ==
  /\ rp' = out.rp
  /\ call' = [op |-> op, size |-> sz, alignment |-> alignment, preventOverflow |-> po,
              ret |-> out.ret, exc |-> out.exc, warned |-> out.warned, path |-> out.path]
  /\ UNCHANGED kernel

\* the range a checkout returned becomes live
Returned(out, sz) ==
  live' = IF out.exc = "none"
          THEN live (+) SetToBag({[start |-> out.ret, size |-> sz]})
          ELSE live

\* the preventOverflow argument: -1 (use the pool's default), False, True
PreventOverflowArgs == {-1, 0, 1}

AddCall(start, sz) ==
  /\ start + sz <= MaxPool
  /\ Called("add", -1, -1, -1, add(rp, start, sz))
  /\ UNCHANGED live

RemoveCall(start, sz) ==
  /\ Called("remove", -1, -1, -1, remove(rp, start, sz))
  /\ UNCHANGED live

CheckOutCall ==
  \E sz \in 1..MaxReq, po \in PreventOverflowArgs :
    LET out == checkOut(rp, sz, po)
    IN /\ Len(out.rp.pool) <= MaxPool
       /\ Called("checkOut", sz, 1, po, out)
       /\ Returned(out, sz)

CheckOutAlignedCall ==
  \E sz \in 1..MaxReq, alignment \in 1..MaxAlign, po \in PreventOverflowArgs :
    LET out == checkOutAligned(rp, sz, alignment, po)
    IN /\ Len(out.rp.pool) <= MaxPool
       /\ Called("checkOutAligned", sz, alignment, po, out)
       /\ Returned(out, sz)

CheckInCall ==
  \E start \in 0..MaxPool :
    /\ Called("checkIn", -1, -1, -1, checkIn(rp, start))
    /\ live' = [r \in {q \in DOMAIN live : q.start # start} |-> live[r]]

CheckFinalStateCall ==
  /\ Called("checkFinalState", -1, -1, -1, checkFinalState(rp))
  /\ UNCHANGED live

Add == \E start \in 0..(MaxPool - 1), sz \in 1..MaxReq : AddCall(start, sz) /\ UNCHANGED removed

Remove == \E start \in 0..MaxPool, sz \in 1..MaxReq : RemoveCall(start, sz) /\ UNCHANGED removed

CheckOut == CheckOutCall /\ UNCHANGED removed

CheckOutAligned == CheckOutAlignedCall /\ UNCHANGED removed

CheckIn == CheckInCall /\ UNCHANGED removed

CheckFinalState == CheckFinalStateCall /\ UNCHANGED removed

Next == Add \/ Remove \/ CheckOut \/ CheckOutAligned \/ CheckIn \/ CheckFinalState

Spec == Init /\ [][Next]_vars

\* ---- RegisterPool with the history of removed indices ----
\* add(start, size) covers [start, start+size): those indices are no longer
\* "removed"
AddH ==
  \E start \in 0..(MaxPool - 1), sz \in 1..MaxReq :
    /\ AddCall(start, sz)
    /\ removed' = removed \ (start..(start + sz - 1))

\* remove(start, size) on a range inside the pool
RemoveH ==
  \E start \in 0..MaxPool, sz \in 1..MaxReq :
    /\ RemoveCall(start, sz)
    /\ removed' = IF start + sz <= Len(rp.pool)
                  THEN removed \cup (start..(start + sz - 1))
                  ELSE removed

NextRemoveHistory == AddH \/ RemoveH \/ CheckOut \/ CheckOutAligned \/ CheckIn \/ CheckFinalState

SpecRemoveHistory == Init /\ [][NextRemoveHistory]_vars

\* ---- generation of one kernel: vgprPool, sgprPool, functionSuffix ----
Pools == {"vgprPool", "sgprPool"}

\* initKernel: line 1804 (sgprPool) and lines 2057-2058 (vgprPool)
InitKernel ==
  /\ rp = RegisterPoolInit(0, 0)
  /\ call = NoCall
  /\ live = EmptyBag
  /\ removed = {}
  /\ \E totalVgprs \in 1..KMaxInit :
       kernel = [pc |-> "body",
                 vgprPool |-> RegisterPoolInit(totalVgprs, 0),
                 sgprPool |-> RegisterPoolInit(0, 1),
                 overflowedResources |-> 0,
                 exc |-> "none"]

\* a pool method called while the kernel body is generated; an exception
\* propagates out of the generation call
KernelCall(k, out) ==
  /\ kernel.pc = "body"
  /\ Len(out.rp.pool) <= KMaxPool
  /\ kernel' = [kernel EXCEPT ![k] = out.rp,
                              !.pc = IF out.exc = "none" THEN "body" ELSE "failed",
                              !.exc = out.exc]
  /\ UNCHANGED <<rp, call, live, removed>>

\* vgprPool.add (initKernel, lines 2065-2083)
KernelAdd ==
  \E start \in 0..(KMaxPool - 1), sz \in 1..KMaxReq :
    KernelCall("vgprPool", add(kernel.vgprPool, start, sz))

\* vgprPool.checkOut / checkOutAligned with the pool's default
\* preventOverflow (e.g. lines 3433-3445)
KernelCheckOut ==
  \E sz \in 1..KMaxReq, alignment \in 1..MaxAlign :
    KernelCall("vgprPool", checkOutAligned(kernel.vgprPool, sz, alignment, -1))

\* KernelWriterAssembly.defineSgpr and TmpSgpr.__init__:
\* sgprPool.checkOutAligned(num, align, preventOverflow=0)
defineSgpr ==
  \E numSgprs \in 1..KMaxReq, align \in 1..MaxAlign :
    KernelCall("sgprPool", checkOutAligned(kernel.sgprPool, numSgprs, align, 0))

\* vgprPool.checkIn; undefineSgpr and TmpSgpr.__del__ (sgprPool.checkIn)
KernelCheckIn ==
  \E k \in Pools, start \in 0..KMaxPool : KernelCall(k, checkIn(kernel[k], start))

\* the configuration is marked over-budget while the body is generated
\* (getTmpSgpr line 882: 2; globalWriteElements line 10421: 3)
MarkOverflowedResources ==
  /\ kernel.pc = "body"
  /\ \E code \in {2, 3} : kernel' = [kernel EXCEPT !.overflowedResources = code]
  /\ UNCHANGED <<rp, call, live, removed>>

\* functionSuffix that compares only the scalar pool with its maximum
functionSuffix_sgprOnly(self, sia2LowOccupancy, occupancyLimit) ==
  LET o1 == IF size(self.sgprPool) > maxSgprs THEN 2
            ELSE self.overflowedResources
      o2 == IF sia2LowOccupancy THEN 6 ELSE o1
      o3 == IF occupancyLimit THEN 4 ELSE o2
      out == checkFinalState(self.vgprPool)
  IN [self EXCEPT !.overflowedResources = o3,
                  !.pc = IF out.exc = "none" THEN "done" ELSE "failed",
                  !.exc = out.exc]

\* functionSuffix returning before the leak check when the kernel is over-budget
functionSuffix_skipWhenOverflowed(self, sia2LowOccupancy, occupancyLimit) ==
  LET o1 == IF size(self.vgprPool) > maxVgprs THEN 1
            ELSE IF size(self.sgprPool) > maxSgprs THEN 2
            ELSE self.overflowedResources
      o2 == IF sia2LowOccupancy THEN 6 ELSE o1
      o3 == IF occupancyLimit THEN 4 ELSE o2
      out == IF o3 # 0 THEN Outcome(self.vgprPool, -1, "none", FALSE, "skipped")
             ELSE checkFinalState(self.vgprPool)
  IN [self EXCEPT !.overflowedResources = o3,
                  !.pc = IF out.exc = "none" THEN "done" ELSE "failed",
                  !.exc = out.exc]

\* KernelWriterAssembly.functionSuffix.  sia2LowOccupancy stands for
\* 'kernel["ScheduleIterAlg"] == 2 and getOccupancy(...) < 2' and
\* occupancyLimit for 'numWorkGroupsPerCU < 1'; both depend on the kernel
\* configuration (NumThreads, LDS size, agprPool), which is an input here.
functionSuffix(self, sia2LowOccupancy, occupancyLimit) ==
  LET o1 == IF size(self.vgprPool) > maxVgprs THEN 1
            ELSE IF size(self.sgprPool) > maxSgprs THEN 2
            ELSE self.overflowedResources
      o2 == IF sia2LowOccupancy THEN 6 ELSE o1
      o3 == IF occupancyLimit THEN 4 ELSE o2
      out == checkFinalState(self.vgprPool)
  IN [self EXCEPT !.overflowedResources = o3,
                  !.pc = IF out.exc = "none" THEN "done" ELSE "failed",
                  !.exc = out.exc]

FunctionSuffix ==
  /\ kernel.pc = "body"
  /\ \E sia2LowOccupancy \in BOOLEAN, occupancyLimit \in BOOLEAN :
       kernel' = functionSuffix(kernel, sia2LowOccupancy, occupancyLimit)
  /\ UNCHANGED <<rp, call, live, removed>>

NextKernel ==
  \/ KernelAdd
  \/ KernelCheckOut
  \/ defineSgpr
  \/ KernelCheckIn
  \/ MarkOverflowedResources
  \/ FunctionSuffix

SpecKernel == InitKernel /\ [][NextKernel]_vars

\* ---- the vector register budget: growth past maxVgprs ----
\* initKernel with totalVgprs close to maxVgprs (lines 2057-2058): the
\* slots of the named registers are Unavailable, so every checkout grows
\* the pool
InitBudget ==
  /\ rp = RegisterPoolInit(0, 0)
  /\ call = NoCall
  /\ live = EmptyBag
  /\ removed = {}
  /\ \E totalVgprs \in (maxVgprs - BudgetSlack)..maxVgprs :
       kernel = [pc |-> "body",
                 vgprPool |-> RegisterPoolInit(totalVgprs, 0),
                 sgprPool |-> RegisterPoolInit(0, 1),
                 overflowedResources |-> 0,
                 exc |-> "none",
                 warned |-> FALSE,
                 disabled |-> FALSE]

BudgetCall(out) ==
  /\ kernel.pc = "body"
  /\ Len(out.rp.pool) <= maxVgprs + BudgetSlack
  /\ kernel' = [kernel EXCEPT !.vgprPool = out.rp,
                              !.pc = IF out.exc = "none" THEN "body" ELSE "failed",
                              !.exc = out.exc]
  /\ UNCHANGED <<rp, call, live, removed>>

\* vgprPool.checkOut with the pool's default preventOverflow
BudgetCheckOut ==
  \E sz \in 1..KMaxReq : BudgetCall(checkOut(kernel.vgprPool, sz, -1))

\* vgprPool.checkIn
BudgetCheckIn ==
  \E start \in (maxVgprs - BudgetSlack)..(maxVgprs + BudgetSlack) :
    BudgetCall(checkIn(kernel.vgprPool, start))

BudgetFunctionSuffix ==
  /\ kernel.pc = "body"
  /\ \E sia2LowOccupancy \in BOOLEAN, occupancyLimit \in BOOLEAN :
       kernel' = functionSuffix(kernel, sia2LowOccupancy, occupancyLimit)
  /\ UNCHANGED <<rp, call, live, removed>>

\* functionSignature, lines 3073-3094, generated after the body so that the
\* register counts are known: an over-budget kernel is reported with
\* printWarning and its text is replaced by s_endpgm followed by ".if 0"
functionSignature(self) ==
  [self EXCEPT !.pc = "signed",
               !.warned = self.overflowedResources # 0,
               !.disabled = self.overflowedResources # 0]

FunctionSignature ==
  /\ kernel.pc = "done"
  /\ kernel' = functionSignature(kernel)
  /\ UNCHANGED <<rp, call, live, removed>>

NextBudget ==
  \/ BudgetCheckOut
  \/ BudgetCheckIn
  \/ BudgetFunctionSuffix
  \/ FunctionSignature

SpecBudget == InitBudget /\ [][NextBudget]_vars

\* ---- the alternate (OptNLL) store path: pool snapshot and swap back ----
\* savedVgprPool / savedSgprPool (lines 2060-2061): << >> stands for None,
\* <<p>> for the saved deep copy p.  The two pools never interact, so one
\* behaviour explores the method calls on one of them (exercised) while the
\* snapshot and the swap back always handle both.
InitOptNLL ==
  /\ rp = RegisterPoolInit(0, 0)
  /\ call = NoCall
  /\ live = EmptyBag
  /\ removed = {}
  /\ \E totalVgprs \in 1..KMaxInit, exercised \in Pools :
       kernel = [pc |-> "body",
                 exercised |-> exercised,
                 vgprPool |-> RegisterPoolInit(totalVgprs, 0),
                 sgprPool |-> RegisterPoolInit(0, 1),
                 savedVgprPool |-> << >>,
                 savedSgprPool |-> << >>,
                 padded |-> FALSE,
                 overflowedResources |-> 0,
                 exc |-> "none"]

\* vgprPool.remove (lines 5242-5248, 6031)
KernelRemove ==
  \E start \in 0..(KMaxPool - 1), sz \in 1..KMaxReq :
    KernelCall("vgprPool", remove(kernel.vgprPool, start, sz))

\* openSumAtLeastUnroll with isOptNLL, lines 6508-6509: deepcopy of both pools
openSumAtLeastUnroll ==
  /\ kernel.pc = "body"
  /\ kernel.savedVgprPool = << >>
  /\ kernel' = [kernel EXCEPT !.savedVgprPool = <<kernel.vgprPool>>,
                              !.savedSgprPool = <<kernel.sgprPool>>]
  /\ UNCHANGED <<rp, call, live, removed>>

\* the saved pool padded with Available slots for the indices first..newSize-1
\* (the loops of lines 6596-6597 and 6607-6608)
restorePool(saved, first, newSize) ==
  IF newSize > size(saved)
  THEN [saved EXCEPT !.pool = saved.pool \o Fill(Max(0, newSize - first), Available)]
  ELSE saved

\* a swap back that drops the padding loops
swapBack_noPadding(self) ==
  [self EXCEPT !.vgprPool = self.savedVgprPool[1],
               !.sgprPool = self.savedSgprPool[1],
               !.savedVgprPool = << >>,
               !.savedSgprPool = << >>]

\* closeSumAtLeastUnroll, lines 6589-6610: swap both pools back to their
\* snapshots (the vgpr loop starts at oldSize, the sgpr loop at oldSize-1)
swapBack(self) ==
  [self EXCEPT !.vgprPool = restorePool(self.savedVgprPool[1],
                                         size(self.savedVgprPool[1]),
                                         size(self.vgprPool)),
               !.sgprPool = restorePool(self.savedSgprPool[1],
                                         size(self.savedSgprPool[1]) - 1,
                                         size(self.sgprPool)),
               !.savedVgprPool = << >>,
               !.savedSgprPool = << >>]

\* padded records that a swap back had to pad a snapshot
closeSumAtLeastUnroll ==
  /\ kernel.pc = "body"
  /\ kernel.savedVgprPool # << >>
  /\ kernel' = [swapBack(kernel) EXCEPT !.padded =
                  \/ @
                  \/ size(kernel.vgprPool) > size(kernel.savedVgprPool[1])
                  \/ size(kernel.sgprPool) > size(kernel.savedSgprPool[1])]
  /\ UNCHANGED <<rp, call, live, removed>>

OptNLLCheckIn ==
  \E start \in 0..KMaxPool :
    KernelCall(kernel.exercised, checkIn(kernel[kernel.exercised], start))

NextOptNLL ==
  \/ kernel.exercised = "vgprPool" /\ KernelAdd
  \/ kernel.exercised = "vgprPool" /\ KernelRemove
  \/ kernel.exercised = "vgprPool" /\ KernelCheckOut
  \/ kernel.exercised = "sgprPool" /\ defineSgpr
  \/ OptNLLCheckIn
  \/ openSumAtLeastUnroll
  \/ closeSumAtLeastUnroll

SpecOptNLL == InitOptNLL /\ [][NextOptNLL]_vars

\* ---- memory-instruction catalog and instruction selection ----
\* class MemoryInstruction (lines 39-47).  blockWidth is kept in quarter
\* registers (the source's 0.25 is 1, 0.5 is 2, 1 is 4, 2 is 8, 4 is 16), and
\* so is every requested width.
MemoryInstruction(name, numAddresses, numOffsets, offsetMultiplier, blockWidthQ) ==
  [name |-> name, numAddresses |-> numAddresses, numOffsets |-> numOffsets,
   offsetMultiplier |-> offsetMultiplier, blockWidth |-> blockWidthQ]

\* self.memoryInstructions, initKernel lines 1178-1275, for kernel["BufferLoad"]
memoryInstructions(BufferLoad) ==
  LET ds_read_b128 == MemoryInstruction("ds_read_b128", 1, 1, 4, 16)
      ds_read2_b64 == MemoryInstruction("ds_read2_b64", 1, 2, 2, 8)
      ds_read_b64 == MemoryInstruction("ds_read_b64", 1, 1, 2, 8)
      ds_read2_b32 == MemoryInstruction("ds_read2_b32", 1, 2, 1, 4)
      ds_read_b32 == MemoryInstruction("ds_read_b32", 1, 1, 1, 4)
      ds_read_u16 == MemoryInstruction("ds_read_u16", 1, 1, 1, 2)
      ds_read_u8 == MemoryInstruction("ds_read_u8", 1, 1, 1, 1)
      ds_write_b128 == MemoryInstruction("ds_write_b128", 1, 1, 4, 16)
      ds_write2_b64 == MemoryInstruction("ds_write2_b64", 1, 2, 2, 8)
      ds_write_b64 == MemoryInstruction("ds_write_b64", 1, 1, 2, 8)
      ds_write2_b32 == MemoryInstruction("ds_write2_b32", 1, 2, 1, 4)
      ds_write_b32 == MemoryInstruction("ds_write_b32", 1, 1, 1, 4)
      ds_write_b16 == MemoryInstruction("ds_write_b16", 1, 1, 1, 2)
      ds_write_b8 == MemoryInstruction("ds_write_b8", 1, 1, 1, 1)
      flat_load_dwordx4 == MemoryInstruction("flat_load_dwordx4", 1, 0, 0, 16)
      flat_load_dwordx2 == MemoryInstruction("flat_load_dwordx2", 1, 0, 0, 8)
      flat_load_dword == MemoryInstruction("flat_load_dword", 1, 0, 0, 4)
      buffer_load_dwordx4 == MemoryInstruction("buffer_load_dwordx4", 1, 0, 0, 16)
      buffer_load_dwordx2 == MemoryInstruction("buffer_load_dwordx2", 1, 0, 0, 8)
      buffer_load_dword == MemoryInstruction("buffer_load_dword", 1, 0, 0, 4)
      buffer_load_short == MemoryInstruction("buffer_load_short_d16", 1, 0, 0, 2)
      buffer_load_byte == MemoryInstruction("buffer_load_byte_d16", 1, 0, 0, 1)
      flat_store_dwordx4 == MemoryInstruction("flat_store_dwordx4", 1, 0, 0, 16)
      flat_store_dwordx2 == MemoryInstruction("flat_store_dwordx2", 1, 0, 0, 8)
      flat_store_dword == MemoryInstruction("flat_store_dword", 1, 0, 0, 4)
      chosen_load_dwordx4 == IF BufferLoad THEN buffer_load_dwordx4 ELSE flat_load_dwordx4
      chosen_load_dwordx2 == IF BufferLoad THEN buffer_load_dwordx2 ELSE flat_load_dwordx2
      chosen_load_dword == IF BufferLoad THEN buffer_load_dword ELSE flat_load_dword
      chosen_load_short == IF BufferLoad THEN buffer_load_short ELSE flat_load_dword
      chosen_load_byte == IF BufferLoad THEN buffer_load_byte ELSE flat_load_dword
  IN [GlobalRead |-> <<chosen_load_dwordx4, chosen_load_dwordx2,
                       chosen_load_dword, chosen_load_short, chosen_load_byte>>,
      GlobalWrite |-> <<flat_store_dwordx4, flat_store_dwordx2, flat_store_dword>>,
      LocalRead |-> <<ds_read_b128, ds_read2_b64, ds_read_b64, ds_read2_b32,
                      ds_read_b32, ds_read_u16, ds_read_u8>>,
      LocalWrite |-> <<ds_write_b128, ds_write2_b64, ds_write_b64, ds_write2_b32,
                       ds_write_b32, ds_write_b16, ds_write_b8>>]

Operations == {"GlobalRead", "GlobalWrite", "LocalRead", "LocalWrite"}

\* the test of lines 810-821 that ignores the requested width
validInstruction_anyWidth(instruction, width, strides, combine) ==
  IF combine
  THEN instruction.numOffsets > 0 =>
         \A k \in 1..Len(strides) : strides[k] % instruction.offsetMultiplier = 0
  ELSE ~(instruction.numOffsets > 1 \/ instruction.numAddresses > 1)

\* the test of lines 810-821 with the stride check applied to multi-offset
\* entries only
validInstruction_multiOffsetOnly(instruction, width, strides, combine) ==
  /\ ~(width < instruction.blockWidth)
  /\ IF combine
     THEN instruction.numOffsets > 1 =>
            \A k \in 1..Len(strides) : strides[k] % instruction.offsetMultiplier = 0
     ELSE ~(instruction.numOffsets > 1 \/ instruction.numAddresses > 1)

\* the value of 'valid' for one catalog entry, lines 804-821
validInstruction(instruction, width, strides, combine) ==
  /\ ~(width < instruction.blockWidth)
  /\ IF combine
     THEN instruction.numOffsets > 0 =>
            \A k \in 1..Len(strides) : strides[k] % instruction.offsetMultiplier = 0
     ELSE ~(instruction.numOffsets > 1 \/ instruction.numAddresses > 1)

RECURSIVE findFrom(_, _, _, _, _)
\* a scan that returns the last valid entry instead of the first
findFrom_last(i, width, strides, combine, instructions) ==
  LET valid == {k \in 0..(Len(instructions) - 1) :
                  validInstruction(At(instructions, k), width, strides, combine)}
  IN IF valid = {} THEN Len(instructions) ELSE CHOOSE k \in valid : \A j \in valid : j <= k

\* the loop of lines 804-824 from index i on
findFrom(i, width, strides, combine, instructions) ==
  IF i >= Len(instructions) THEN Len(instructions)
  ELSE IF validInstruction(At(instructions, i), width, strides, combine) THEN i
  ELSE findFrom(i + 1, width, strides, combine, instructions)

\* lines 802-827: the index found, or len(instructions) after a warning
findMemoryInstructionForWidthStride(width, strides, combine, instructions) ==
  LET i == findFrom(0, width, strides, combine, instructions)
  IN [idx |-> i, warned |-> i = Len(instructions)]

\* selectMemoryInstruction, lines 834-857
selectMemoryInstruction(self, operation, width, write2, para2, perp2, strides) ==
  LET instructions == memoryInstructions(self.BufferLoad)[operation]
      combine == \/ write2 = "Coalesced" /\ para2
                 \/ write2 = "Perpendicular" /\ perp2
      found == findMemoryInstructionForWidthStride(width, strides, combine, instructions)
  IN [op |-> "selectMemoryInstruction", operation |-> operation, width |-> width,
      combine |-> combine, strides |-> strides,
      ret |-> IF found.idx < Len(instructions) THEN found.idx ELSE -1,
      exc |-> IF found.idx < Len(instructions) THEN "none" ELSE "RuntimeError",
      warned |-> found.warned]

\* the stride lists of the call sites: [] (line 1355), one stride (line 1486),
\* two strides (line 1416)
StrideLists ==
  {<< >>} \cup {<<a>> : a \in 0..MaxStride}
          \cup {<<a, b>> : a \in 0..MaxStride, b \in 0..MaxStride}

InitSelect ==
  /\ rp = RegisterPoolInit(0, 0)
  /\ call = NoCall
  /\ live = EmptyBag
  /\ removed = {}
  /\ \E BufferLoad \in BOOLEAN : kernel = [pc |-> "initKernel", BufferLoad |-> BufferLoad]

\* one selection per behaviour: the function is pure
SelectMemoryInstruction ==
  /\ call = NoCall
  /\ \E operation \in Operations, width \in 0..MaxWidthQ,
        write2 \in {"Coalesced", "Perpendicular", "None"},
        para2 \in BOOLEAN, perp2 \in BOOLEAN, strides \in StrideLists :
       call' = selectMemoryInstruction(kernel, operation, width, write2, para2, perp2, strides)
  /\ UNCHANGED <<rp, live, removed, kernel>>

NextSelect == SelectMemoryInstruction

SpecSelect == InitSelect /\ [][NextSelect]_vars

\* ---- GlobalSplitU: per-partition unroll loop count ----
\* s_add_u32 on 32-bit scalar registers.  The sum wraps at 2^32; register
\* values are kept below 2^31 here and the operands of the one s_add_u32 of
\* this sequence are 1 and a quotient by GlobalSplitU >= 2, so the sum is
\* computed exactly.
s_add_u32(a, b) == a + b

\* AsmUtils.scalarStaticDivideAndRemainder(qReg, rReg, dReg, divisor, ...):
\* qReg <- dReg div divisor, rReg <- dReg mod divisor
scalarStaticDivideAndRemainder(s, qReg, rReg, dReg, divisor) ==
  [s EXCEPT ![qReg] = s[dReg] \div divisor, ![rReg] = s[dReg] % divisor]

\* the sequence with s_cmp_le_u32 in place of s_cmp_lt_u32
calculateLoopNumIterGsu_le(s, GlobalSplitU) ==
  LET s1 == [s EXCEPT !["tmpSgpr+2"] = s["loopCounter"]]
      s2 == scalarStaticDivideAndRemainder(s1, "loopCounter", "GSUSumIdx+1",
                                           "tmpSgpr+2", GlobalSplitU)
      s3 == [s2 EXCEPT !["tmpSgpr"] = s_add_u32(1, s2["loopCounter"])]
      scc == s3["GSUSumIdx"] <= s3["GSUSumIdx+1"]
  IN [s3 EXCEPT !["loopCounter"] = IF scc THEN s3["tmpSgpr"] ELSE @]

\* the instruction sequence emitted by calculateLoopNumIterGsu (lines
\* 5461-5479), run on the scalar registers s of one workgroup:
\* s_mov_b32, static divide, s_add_u32, s_cmp_lt_u32, s_cmov_b32
calculateLoopNumIterGsu(s, GlobalSplitU) ==
  LET s1 == [s EXCEPT !["tmpSgpr+2"] = s["loopCounter"]]
      s2 == scalarStaticDivideAndRemainder(s1, "loopCounter", "GSUSumIdx+1",
                                           "tmpSgpr+2", GlobalSplitU)
      s3 == [s2 EXCEPT !["tmpSgpr"] = s_add_u32(1, s2["loopCounter"])]
      scc == s3["GSUSumIdx"] < s3["GSUSumIdx+1"]
  IN [s3 EXCEPT !["loopCounter"] = IF scc THEN s3["tmpSgpr"] ELSE @]

\* total iteration counts tried: small ones and three just below 2^31
TotalIters == (0..MaxIter) \cup {2147483645, 2147483646, 2147483647}

\* calculateLoopNumIter, unrolled loop (lines 5562-5571): every workgroup of
\* the GlobalSplitU partitions holds the total count in its loop counter;
\* the other registers hold leftovers
InitGsu ==
  /\ rp = RegisterPoolInit(0, 0)
  /\ call = NoCall
  /\ live = EmptyBag
  /\ removed = {}
  /\ \E T \in TotalIters, G \in 2..MaxGSU :
       kernel = [pc |-> [g \in 0..(G - 1) |-> "divided"],
                 GlobalSplitU |-> G,
                 total |-> T,
                 sgpr |-> [g \in 0..(G - 1) |->
                            [r \in {"loopCounter", "GSUSumIdx", "GSUSumIdx+1",
                                    "tmpSgpr", "tmpSgpr+2"} |->
                               IF r = "loopCounter" THEN T
                               ELSE IF r = "GSUSumIdx" THEN g ELSE 0]]]

\* workgroup g runs the emitted sequence
CalculateLoopNumIterGsu ==
  /\ \E g \in DOMAIN kernel.pc :
       /\ kernel.pc[g] = "divided"
       /\ kernel' = [kernel EXCEPT
                       !.pc[g] = "counted",
                       !.sgpr[g] = calculateLoopNumIterGsu(kernel.sgpr[g], kernel.GlobalSplitU)]
  /\ UNCHANGED <<rp, call, live, removed>>

NextGsu == CalculateLoopNumIterGsu

SpecGsu == InitGsu /\ [][NextGsu]_vars

\* ---- globalWriteBatch: atomic compare-and-swap accumulation ----
Writers == 1..NWriters

\* The workgroups of one GlobalSplitU group (the writers) run the code that
\* globalWriteBatch emits for atomic and not useAtomicAdd (lines 10941-10963
\* and 11075-11308) on the same output tile: lane l of every writer targets
\* the same address for batch element e.  gwvw // atomicW is 1 (maxGwvw,
\* lines 8843-8853), so each element has one compare-and-swap per lane.
Lanes == {0, 1}

\* the value of ValuC in every lane of writer w: the writers contribute
\* -1, 1, -3, ... (each changes memory, and the first two together return
\* it to the value it held before)
ValuCOf(w) == IF w % 2 = 1 THEN -w ELSE w - 1

\* batchElements, in emission order (a batch of one element)
Elements == <<"e0">>

ElementSet == {Elements[k] : k \in 1..Len(Elements)}

lastElement == Elements[Len(Elements)]

AllOps == ElementSet \X Lanes

\* the lanes of a set of pending memory operations of element e
OpsOf(e, lanes) == {<<e, l>> : l \in lanes}

\* one wavefront before its loads of D are issued.  mask is
\* ss.elementMask[e]: the in-bounds lanes in an edge batch; in a non-edge
\* batch it is first written by the check of the first attempt
Wavefront(contribution, edge, inBounds) ==
  [pc |-> "load",
   pending |-> IF edge THEN UNION {OpsOf(e, inBounds[e]) : e \in ElementSet} ELSE AllOps,
   exec |-> Lanes,
   mask |-> [e \in ElementSet |-> IF edge THEN inBounds[e] ELSE Lanes],
   ValuC |-> contribution,
   old |-> [e \in ElementSet |-> [l \in Lanes |-> 0]],
   ret |-> [e \in ElementSet |-> [l \in Lanes |-> 0]],
   attempts |-> [e \in ElementSet |-> [l \in Lanes |-> 0]],
   swapped |-> [e \in ElementSet |-> [l \in Lanes |-> 0]]]

InitAtomic ==
  /\ rp = RegisterPoolInit(0, 0)
  /\ call = NoCall
  /\ live = EmptyBag
  /\ removed = {}
  /\ \E edge \in BOOLEAN, DisableAtomicFail \in BOOLEAN,
        original \in {2},
        outOfBounds \in {{}, {1}} :
       LET inBounds == [e \in ElementSet |->
                          IF edge /\ e = lastElement THEN Lanes \ outOfBounds ELSE Lanes]
       IN /\ (~edge => outOfBounds = {})
          /\ kernel = [edge |-> edge,
                       DisableAtomicFail |-> DisableAtomicFail,
                       original |-> original,
                       inBounds |-> inBounds,
                       D |-> [e \in ElementSet |-> [l \in Lanes |-> original]],
                       wave |-> [w \in Writers |->
                                   Wavefront(ValuCOf(w), edge, inBounds)]]

\* "load D (atomic)", lines 10941-10963: one lane's load into dataV+1
AtomicLoad ==
  /\ \E w \in Writers, op \in AllOps :
       LET wv == kernel.wave[w]
           e == op[1]
           l == op[2]
       IN /\ wv.pc = "load"
          /\ op \in wv.pending
          /\ kernel' = [kernel EXCEPT
                          !.wave[w].pending = @ \ {op},
                          !.wave[w].old[e][l] = kernel.D[e][l]]
  /\ UNCHANGED <<rp, call, live, removed>>

\* "issue first atomic writes", lines 11084-11139, after s_waitcnt vmcnt(0):
\* every lane of exec gets its compare-and-swap issued
FirstAttempt ==
  /\ \E w \in Writers :
       LET wv == kernel.wave[w]
       IN /\ wv.pc = "load"
          /\ wv.pending = {}
          /\ kernel' = [kernel EXCEPT
                          !.wave[w].pc = "first",
                          !.wave[w].exec = IF kernel.edge THEN wv.mask[lastElement] ELSE Lanes,
                          !.wave[w].pending =
                             UNION {OpsOf(e, IF kernel.edge THEN wv.mask[e] ELSE Lanes) :
                                      e \in ElementSet}]
  /\ UNCHANGED <<rp, call, live, removed>>

\* a compare-and-swap that returns the expected value although the compare
\* failed
cmpswap_retExpected(D, expected, desired) ==
  [D |-> IF D = expected THEN desired ELSE D, ret |-> expected]

\* buffer_atomic_cmpswap / flat_atomic_cmpswap ... glc: store the desired
\* value if memory holds the expected one; return what memory held
cmpswap(D, expected, desired) ==
  [D |-> IF D = expected THEN desired ELSE D, ret |-> D]

\* one lane's compare-and-swap of lines 11117-11139 ("attempt write") or
\* 11247-11267 ("try again"): desired = original C + ValuC
\* (chooseAddForAtomic), the returned value goes to atomicDestVgpr
CmpSwap ==
  /\ \E w \in Writers, op \in AllOps :
       LET wv == kernel.wave[w]
           e == op[1]
           l == op[2]
           r == cmpswap(kernel.D[e][l], wv.old[e][l], wv.old[e][l] + wv.ValuC)
       IN /\ wv.pc \in {"first", "loop"}
          /\ op \in wv.pending
          /\ kernel' = [kernel EXCEPT
                          !.D[e][l] = r.D,
                          !.wave[w].pending = @ \ {op},
                          !.wave[w].ret[e][l] = r.ret,
                          !.wave[w].attempts[e][l] = @ + 1,
                          !.wave[w].swapped[e][l] =
                             IF r.ret = wv.old[e][l] THEN @ + 1 ELSE @]
  /\ UNCHANGED <<rp, call, live, removed>>

\* a compare that sets the lanes whose returned value equals the expected one
v_cmp_eq_u32(wv, e, exec) ==
  {l \in exec : wv.ret[e][l] = wv.old[e][l]}

\* v_cmp_ne_u32 sgpr, vgpr(atomicDestVgpr), vgpr(dataV+1) under exec: the
\* lanes whose compare-and-swap returned something else than expected
v_cmp_ne_u32(wv, e, exec) ==
  {l \in exec : wv.ret[e][l] # wv.old[e][l]}

\* v_cmp_ne_u32 under exec = element mask, then s_and with the element mask
\* ("inBounds & must try again")
mustTryAgain(wv, e) ==
  v_cmp_ne_u32(wv, e, wv.mask[e]) \cap wv.mask[e]

\* the tail of a check: or the masks, s_or_saveexec, then either leave the
\* loop (exec empty; lines 11213, 11305-11307) or run "apply updated masks and
\* issue writes again" (lines 11219-11267): per element exec = mask,
\* dataV+1 = returned value, next compare-and-swap issued
retryOrExit(wv, mask, exec) ==
  LET combined == UNION {mask[e] : e \in ElementSet}
      newExec == combined \cup exec
  IN IF newExec = {}
     THEN [wv EXCEPT !.pc = "done", !.mask = mask, !.exec = Lanes]
     ELSE [wv EXCEPT
             !.pc = "loop",
             !.mask = mask,
             !.exec = mask[lastElement],
             !.old = [e \in ElementSet |-> [l \in Lanes |->
                        IF l \in mask[e] THEN wv.ret[e][l] ELSE wv.old[e][l]]],
             !.pending = UNION {OpsOf(e, mask[e]) : e \in ElementSet}]

\* "check success of writes, update masks", lines 11149-11212
checkFirstAttempt(wv, edge, DisableAtomicFail) ==
  LET mask == [e \in ElementSet |->
                 IF DisableAtomicFail THEN {}
                 ELSE IF edge THEN mustTryAgain(wv, e)
                 ELSE v_cmp_ne_u32(wv, e, Lanes)]
  IN retryOrExit(wv, mask, wv.exec)

CheckFirstAttempt ==
  /\ \E w \in Writers :
       LET wv == kernel.wave[w]
       IN /\ wv.pc = "first"
          /\ wv.pending = {}
          /\ kernel' = [kernel EXCEPT !.wave[w] =
                          checkFirstAttempt(wv, kernel.edge, kernel.DisableAtomicFail)]
  /\ UNCHANGED <<rp, call, live, removed>>

\* "apply masks and check for success", lines 11274-11307
checkRetry(wv) ==
  retryOrExit(wv, [e \in ElementSet |-> mustTryAgain(wv, e)],
              wv.mask[lastElement])

CheckRetry ==
  /\ \E w \in Writers :
       LET wv == kernel.wave[w]
       IN /\ wv.pc = "loop"
          /\ wv.pending = {}
          /\ kernel' = [kernel EXCEPT !.wave[w] = checkRetry(wv)]
  /\ UNCHANGED <<rp, call, live, removed>>

NextAtomic ==
  \/ AtomicLoad
  \/ FirstAttempt
  \/ CmpSwap
  \/ CheckFirstAttempt
  \/ CheckRetry

SpecAtomic == InitAtomic /\ [][NextAtomic]_vars

\* every wavefront keeps executing
SpecAtomicFair == SpecAtomic /\ WF_vars(NextAtomic)

\* ---- StoreState: addressing-mode selection ----
\* the selection with the edge test left out
selectColVgprOpts_ignoreEdge(cfg, edge, atomic) ==
  LET inner == cfg.BufferStore /\ ~atomic
      shared0 == IF inner /\ cfg.PackedC0 > 1 THEN 1 ELSE 0
      single0 == IF inner /\ ~(cfg.PackedC0 > 1) /\ ~(cfg.PackedC1 > 1) THEN 1 ELSE 0
  IN [optSingleColVgpr |-> IF cfg.UseInitialStridesCD THEN 0 ELSE single0,
      optSharedColVgpr |-> IF cfg.UseInitialStridesCD THEN 0 ELSE shared0,
      optSrdIncForRow |-> IF cfg.StoreRemapVectorWidth # 0 THEN 1
                          ELSE IF inner /\ ~atomic /\ cfg.PackedC1 = 1 THEN 1 ELSE 0,
      optSharedMask |-> cfg.BufferStore /\ ~edge /\ ~atomic]

\* StoreState.__init__, lines 9349-9383: optSingleColVgpr, optSharedColVgpr,
\* optSrdIncForRow and optSharedMask from the kernel configuration
\* (PackedC0 and PackedC1 are len(kernel["PackedC0IndicesX"]) and
\* len(kernel["PackedC1IndicesX"]))
selectColVgprOpts(cfg, edge, atomic) ==
  LET inner == cfg.BufferStore /\ ~edge /\ ~atomic
      shared0 == IF inner /\ cfg.PackedC0 > 1 THEN 1 ELSE 0
      single0 == IF inner /\ ~(cfg.PackedC0 > 1) /\ ~(cfg.PackedC1 > 1) THEN 1 ELSE 0
  IN [optSingleColVgpr |-> IF cfg.UseInitialStridesCD THEN 0 ELSE single0,
      optSharedColVgpr |-> IF cfg.UseInitialStridesCD THEN 0 ELSE shared0,
      optSrdIncForRow |-> IF cfg.StoreRemapVectorWidth # 0 THEN 1
                          ELSE IF inner /\ ~atomic /\ cfg.PackedC1 = 1 THEN 1 ELSE 0,
      optSharedMask |-> cfg.BufferStore /\ ~edge /\ ~atomic]

\* StoreState.__init__, lines 9349-9404: the options, the assert of line 9386
\* and the checkout of the shared address registers from the vgprPool;
\* numCols is the number of elements of row 0
StoreState(vgprPool, cfg, edge, atomic, numCols) ==
  LET opts == selectColVgprOpts(cfg, edge, atomic)
      asserted == ~(opts.optSingleColVgpr = 1 /\ opts.optSharedColVgpr = 1)
      numAddrVgpr == IF opts.optSharedColVgpr = 1 THEN numCols
                     ELSE IF opts.optSingleColVgpr = 1 THEN 1 ELSE 0
      out == IF asserted /\ numAddrVgpr > 0
             THEN checkOut(vgprPool, numAddrVgpr, -1)
             ELSE Outcome(vgprPool, -1, IF asserted THEN "none" ELSE "AssertionError",
                          FALSE, "none")
  IN [op |-> "StoreState", cfg |-> cfg, edge |-> edge, atomic |-> atomic,
      optSingleColVgpr |-> opts.optSingleColVgpr,
      optSharedColVgpr |-> opts.optSharedColVgpr,
      optSrdIncForRow |-> opts.optSrdIncForRow,
      optSharedMask |-> opts.optSharedMask,
      numAddrVgpr |-> numAddrVgpr,
      sharedColVgprs |-> out.ret,
      exc |-> out.exc,
      vgprPool |-> out.rp]

\* the kernel configurations tried
StoreConfigs ==
  [BufferStore : BOOLEAN, PackedC0 : 1..MaxPacked, PackedC1 : 1..MaxPacked,
   UseInitialStridesCD : BOOLEAN, StoreRemapVectorWidth : {0, 4}]

\* rp is the kernel writer's vgprPool
InitStoreState ==
  /\ \E n \in 0..MaxInit : rp = RegisterPoolInit(n, 0)
  /\ call = NoCall
  /\ live = EmptyBag
  /\ removed = {}
  /\ kernel = [pc |-> "globalWriteElements"]

\* one StoreState is constructed per behaviour
StoreStateInit ==
  /\ call = NoCall
  /\ \E cfg \in StoreConfigs, edge \in BOOLEAN, atomic \in BOOLEAN, numCols \in 1..MaxReq :
       LET ss == StoreState(rp, cfg, edge, atomic, numCols)
       IN /\ call' = [ss EXCEPT !.vgprPool = "kernelWriter.vgprPool"]
          /\ rp' = ss.vgprPool
  /\ UNCHANGED <<live, removed, kernel>>

NextStoreState == StoreStateInit

SpecStoreState == InitStoreState /\ [][NextStoreState]_vars

\* ---- magic division ----
\* A 32-bit register is a sequence of 4 bytes and a 64-bit register pair a
\* sequence of 8 bytes, least significant first, so that 64-bit products
\* are computed exactly.
RECURSIVE Bytes(_, _)
Bytes(x, k) == IF k = 0 THEN << >> ELSE <<x % 256>> \o Bytes(x \div 256, k - 1)

\* the register holding hi * 2^16 + lo
Reg32(hi, lo) == Bytes(lo, 2) \o Bytes(hi, 2)

lo32(A) == SubSeq(A, 1, 4)

hi32(A) == SubSeq(A, 5, 8)

RECURSIVE columnSum(_, _, _, _)
columnSum(A, B, k, i) ==
  IF i > Len(A) THEN 0
  ELSE (IF (k + 1 - i) \in DOMAIN B THEN A[i] * B[k + 1 - i] ELSE 0)
       + columnSum(A, B, k, i + 1)

RECURSIVE mulFrom(_, _, _, _)
mulFrom(A, B, k, carry) ==
  IF k > Len(A) + Len(B) THEN << >>
  ELSE LET t == columnSum(A, B, k, 1) + carry
       IN <<t % 256>> \o mulFrom(A, B, k + 1, t \div 256)

\* the full 64-bit product of two 32-bit registers
mul64(A, B) == mulFrom(A, B, 1, 0)

\* s_mul_hi_u32 / v_mul_hi_u32: the upper 32 bits of the product
s_mul_hi_u32(A, B) == hi32(mul64(A, B))

\* s_mul_i32 / v_mul_lo_u32: the lower 32 bits of the product
s_mul_i32(A, B) == lo32(mul64(A, B))

RECURSIVE addFrom(_, _, _, _)
addFrom(A, B, k, carry) ==
  IF k > Len(A) THEN << >>
  ELSE LET t == A[k] + B[k] + carry
       IN <<t % 256>> \o addFrom(A, B, k + 1, t \div 256)

\* s_add_u32 / _v_add_u32 on whole registers: the carry out of bit 31 is
\* not part of the destination
add_u32(A, B) == addFrom(A, B, 1, 0)

\* logical shift right of a register or register pair by sh bits
lshr(A, sh) ==
  LET q == sh \div 8
      r == sh % 8
      at(i) == IF i \in DOMAIN A THEN A[i] ELSE 0
  IN [i \in 1..Len(A) |-> (at(i + q) \div 2^r) + (at(i + q + 1) % 2^r) * 2^(8 - r)]

\* s_lshr_b32 / v_lshrrev_b32 with the shift count in a register: the
\* hardware uses the low 5 bits of the count
s_lshr_b32(A, S) == lshr(A, S[1] % 32)

\* s_lshr_b64 / v_lshrrev_b64 with a literal count
s_lshr_b64(A, sh) == lshr(A, sh % 64)

\* s_and_b32 with 0x7fffffff
s_and_b32_7fffffff(A) == [A EXCEPT ![4] = A[4] % 128]

RECURSIVE divFrom(_, _, _, _)
divFrom(A, n, k, rem) ==
  IF k = 0 THEN << >>
  ELSE LET cur == rem * 256 + A[k]
       IN divFrom(A, n, k - 1, cur % n) \o <<cur \div n>>

\* floor(A / n) for a small natural n, by long division
floorDiv(A, n) == divFrom(A, n, Len(A), 0)

RECURSIVE modFrom(_, _, _, _)
modFrom(A, n, k, rem) ==
  IF k = 0 THEN rem ELSE modFrom(A, n, k - 1, (rem * 256 + A[k]) % n)

\* A mod n
modSmall(A, n) == modFrom(A, n, Len(A), 0)

\* 2^p as a register pair
pow2(p) == [i \in 1..8 |-> IF i - 1 = p \div 8 THEN 2^(p % 8) ELSE 0]

isZero(A) == \A i \in DOMAIN A : A[i] = 0

\* line 3717
smallNumMagicShift == 31

\* lines 3717-3718: the magic number of the 64-bit-product form,
\* (1 << smallNumMagicShift) // absWgm + 1
magicNumberWgm(absWgm) ==
  add_u32(lo32(floorDiv(pow2(smallNumMagicShift), absWgm)), Reg32(0, 1))

\* sMagicDiv, lines 3487-3491: s_mul_u64_u32 (lines 11967-11974) then
\* s_lshr_b64; the quotient is read from sgpr(dest)
sMagicDiv(dividend, magicNumber, magicShift) ==
  LET dest1 == s_mul_hi_u32(dividend, magicNumber)
      dest0 == s_mul_i32(dividend, magicNumber)
  IN lo32(s_lshr_b64(dest0 \o dest1, magicShift))

\* sMagicDivAlg2, lines 3498-3512
sMagicDivAlg2(dividend, magicNumber, magicShiftAbit) ==
  LET dest1 == s_mul_hi_u32(dividend, magicNumber)
      abit == lshr(magicShiftAbit, 31)
      dest0 == s_mul_i32(dividend, abit)
      sum == add_u32(dest0, dest1)
      tmpS == s_and_b32_7fffffff(magicShiftAbit)
  IN s_lshr_b32(sum, tmpS)

\* the V_MAGIC_DIV macro, lines 2603-2615, for both values of MagicDivAlg
V_MAGIC_DIV(MagicDivAlg, dividend, magicNumber, magicShift, magicA) ==
  IF MagicDivAlg = 1
  THEN lo32(s_lshr_b64(s_mul_i32(dividend, magicNumber)
                       \o s_mul_hi_u32(dividend, magicNumber), magicShift[1]))
  ELSE s_lshr_b32(add_u32(s_mul_i32(dividend, magicA),
                          s_mul_hi_u32(dividend, magicNumber)), magicShift)

\* scalarMagicDivExplicit, lines 11995-12003
scalarMagicDivExplicit(dividend, magicNumber, magicAbit, magicShift) ==
  LET dst1 == s_mul_hi_u32(dividend, magicNumber)
      dst0 == s_mul_i32(dividend, magicAbit)
  IN s_lshr_b32(add_u32(dst0, dst1), magicShift)

\* The {multiplier, shift, abit} triple of a divisor is computed on the
\* host: the smallest p >= 32 with 2^p > nc * (n - 1 - (2^p - 1) mod n),
\* where nc is the largest dividend congruent to n - 1; the multiplier is
\* floor((2^p - 1) / n) + 1, whose bit 32 is the abit, and the shift p - 32.
magicDelta(n, p) == n - 1 - ((modSmall(pow2(p), n) + n - 1) % n)

magicNc(n) ==
  LET t == modSmall(pow2(32), n)
  IN [i \in 1..4 |-> 255 - Bytes(t, 4)[i]]

RECURSIVE magicP(_, _)
magicP(n, p) ==
  IF p >= 63 \/ isZero(lshr(mul64(magicNc(n), Bytes(magicDelta(n, p), 4)), p))
  THEN p ELSE magicP(n, p + 1)

magicTriple(n) ==
  LET p == magicP(n, 32)
      q == floorDiv(pow2(p), n)
      full == IF modSmall(pow2(p), n) = 0 THEN q
              ELSE addFrom(q, Bytes(1, 8), 1, 0)
  IN [magicNumber |-> lo32(full),
      magicAbit |-> full[5] % 2,
      magicShift |-> p - 32]

\* the kernel argument MagicShiftSize*: shift in bits 30..0, abit in bit 31
magicShiftAbit(t) == Bytes(t.magicShift, 3) \o <<128 * t.magicAbit>>

\* the static divisors and the 32-bit dividends tried
Divisors == (1..MaxDivisor) \cup {4096}

DividendHalves == {0, 1, 32767, 32768, 65535}

Dividends == {Reg32(hi, lo) : hi \in DividendHalves, lo \in DividendHalves}

MagicDivCall(name, n, d, q) ==
  [op |-> name, divisor |-> n, dividend |-> d, quotient |-> q]

InitMagicDiv ==
  /\ rp = RegisterPoolInit(0, 0)
  /\ call = NoCall
  /\ live = EmptyBag
  /\ removed = {}
  /\ kernel = [pc |-> "magicDiv"]

\* the blocked work-group mapping, lines 3715-3732: absWgm > 1
SMagicDiv ==
  /\ call = NoCall
  /\ \E n \in Divisors \ {1}, d \in Dividends :
       call' = MagicDivCall("sMagicDiv", n, d,
                            sMagicDiv(d, magicNumberWgm(n), smallNumMagicShift))
  /\ UNCHANGED <<rp, live, removed, kernel>>

SMagicDivAlg2 ==
  /\ call = NoCall
  /\ \E n \in Divisors, d \in Dividends :
       LET t == magicTriple(n)
       IN call' = MagicDivCall("sMagicDivAlg2", n, d,
                               sMagicDivAlg2(d, t.magicNumber, magicShiftAbit(t)))
  /\ UNCHANGED <<rp, live, removed, kernel>>

\* MagicDivAlg 1 takes the magic number of the 64-bit-product form and its
\* shift, MagicDivAlg 2 the triple
VMagicDiv ==
  /\ call = NoCall
  /\ \E MagicDivAlg \in {1, 2}, n \in Divisors \ {1}, d \in Dividends :
       LET t == magicTriple(n)
       IN call' = MagicDivCall(
            IF MagicDivAlg = 1 THEN "V_MAGIC_DIV 1" ELSE "V_MAGIC_DIV 2", n, d,
            IF MagicDivAlg = 1
            THEN V_MAGIC_DIV(1, d, magicNumberWgm(n), Bytes(smallNumMagicShift, 4),
                             Bytes(0, 4))
            ELSE V_MAGIC_DIV(2, d, t.magicNumber, Bytes(t.magicShift, 4),
                             Bytes(t.magicAbit, 4)))
  /\ UNCHANGED <<rp, live, removed, kernel>>

ScalarMagicDivExplicit ==
  /\ call = NoCall
  /\ \E n \in Divisors, d \in Dividends :
       LET t == magicTriple(n)
       IN call' = MagicDivCall("scalarMagicDivExplicit", n, d,
                               scalarMagicDivExplicit(d, t.magicNumber,
                                 Bytes(t.magicAbit, 4), Bytes(t.magicShift, 4)))
  /\ UNCHANGED <<rp, live, removed, kernel>>

NextMagicDiv ==
  \/ SMagicDiv
  \/ SMagicDivAlg2
  \/ VMagicDiv
  \/ ScalarMagicDivExplicit

SpecMagicDiv == InitMagicDiv /\ [][NextMagicDiv]_vars

\* ---- scalar temporaries: getTmpSgpr and the instructions that use them ----
\* an emitted instruction: its opcode, the scalar temporaries it names, and
\* whether each of them was checked out of the pool when it was emitted
Inst(pool, name, sgprs) ==
  [name |-> name, sgprs |-> sgprs,
   checkedOut |-> \A r \in sgprs : r < Len(pool.pool) /\ At(pool.pool, r) = InUse]

\* getTmpSgpr, lines 875-885: align defaults to 1 for one register and to 2
\* otherwise; TmpSgpr.__init__ (line 863) checks out with preventOverflow
\* False; AssertOnSgprOverflow is the debug switch of line 882
getTmpSgpr(self, num, AssertOnSgprOverflow) ==
  LET align == IF num = 1 THEN 1 ELSE 2
      out == checkOutAligned(self.sgprPool, num, align, 0)
      over == out.ret + num > maxSgprs
  IN [self |-> [self EXCEPT !.sgprPool = out.rp,
                            !.overflowedResources = IF over THEN 2 ELSE @,
                            !.exc = IF over /\ AssertOnSgprOverflow
                                    THEN "AssertionError" ELSE out.exc],
      regIdx |-> out.ret]

\* TmpSgpr.__del__, lines 871-872
TmpSgpr_del(self, regIdx) ==
  [self EXCEPT !.sgprPool = checkIn(self.sgprPool, regIdx).rp]

\* "self.getTmpSgpr(n).idx()": the TmpSgpr object is referenced by nothing
\* once idx() has returned.  An interpreter that counts references runs
\* __del__ at once; otherwise the object waits for the collector.
dropTemporary(self, regIdx) ==
  IF self.refcounting THEN TmpSgpr_del(self, regIdx)
  ELSE [self EXCEPT !.garbage = @ \cup {regIdx}]

\* calculateLoopNumIter for the unroll loop, lines 5551-5575, with
\* calculateLoopNumIterGsu (lines 5461-5479): the temporary is obtained by
\* "self.getTmpSgpr(3).idx()" and named by the instructions emitted after it
calculateLoopNumIter(self, unrollIncIsDepthU, GlobalSplitU) ==
  IF unrollIncIsDepthU
  THEN [self |-> self, tmpSgpr |-> -1,
        emitted |-> <<Inst(self.sgprPool, "s_mov_b32", {}),
                      Inst(self.sgprPool, "s_mov_b32", {})>>]
  ELSE LET g == getTmpSgpr(self, 3, FALSE)
           tmpSgpr == g.regIdx
           s1 == dropTemporary(g.self, tmpSgpr)
           p == s1.sgprPool
           divide == <<Inst(p, "scalarStaticDivideAndRemainder", {tmpSgpr, tmpSgpr + 1})>>
           gsu == IF GlobalSplitU > 1
                  THEN <<Inst(p, "s_mov_b32", {tmpSgpr + 2}),
                         Inst(p, "scalarStaticDivideAndRemainder",
                              {tmpSgpr, tmpSgpr + 1, tmpSgpr + 2}),
                         Inst(p, "s_add_u32", {tmpSgpr}),
                         Inst(p, "s_cmp_lt_u32", {}),
                         Inst(p, "s_cmov_b32", {tmpSgpr})>>
                  ELSE << >>
       IN [self |-> s1, tmpSgpr |-> tmpSgpr,
           emitted |-> divide \o gsu \o <<Inst(p, "s_mov_b32", {})>>]

\* chooseGlobalWrite, lines 10584-10640: a buffer store whose offset does
\* not fit the 12-bit field moves it to a scalar temporary obtained by
\* "sgpr(self.getTmpSgpr(1).idx())"
chooseGlobalWrite(self, useBuffer, offset) ==
  IF useBuffer /\ offset >= 4096
  THEN LET g == getTmpSgpr(self, 1, FALSE)
           tmpSgpr == g.regIdx
           s1 == dropTemporary(g.self, tmpSgpr)
           p == s1.sgprPool
       IN [self |-> s1, tmpSgpr |-> tmpSgpr,
           emitted |-> <<Inst(p, "s_mov_b32", {tmpSgpr}),
                         Inst(p, "buffer_store", {tmpSgpr})>>]
  ELSE [self |-> self, tmpSgpr |-> -1,
        emitted |-> <<Inst(self.sgprPool,
                           IF useBuffer THEN "buffer_store" ELSE "flat_store", {})>>]

\* initKernel, line 1804: the scalar pool starts empty and refuses to grow
\* by default; the interpreter either counts references or collects later
InitTmpSgpr ==
  /\ rp = RegisterPoolInit(0, 0)
  /\ call = NoCall
  /\ live = EmptyBag
  /\ removed = {}
  /\ \E refcounting \in BOOLEAN :
       kernel = [pc |-> "body",
                 sgprPool |-> RegisterPoolInit(0, 1),
                 overflowedResources |-> 0,
                 exc |-> "none",
                 refcounting |-> refcounting,
                 garbage |-> {}]

TmpCall(name, r) ==
  /\ kernel.pc = "body"
  /\ Len(r.self.sgprPool.pool) <= MaxSgprPool
  /\ kernel' = r.self
  /\ call' = [op |-> name, tmpSgpr |-> r.tmpSgpr, emitted |-> r.emitted]
  /\ UNCHANGED <<rp, live, removed>>

\* defineSgpr, lines 912-920: a named scalar register that stays defined
TmpDefineSgpr ==
  /\ kernel.pc = "body"
  /\ \E numSgprs \in 1..KMaxReq :
       LET out == checkOutAligned(kernel.sgprPool, numSgprs, 1, 0)
       IN /\ Len(out.rp.pool) <= MaxSgprPool
          /\ kernel' = [kernel EXCEPT !.sgprPool = out.rp]
          /\ call' = [op |-> "defineSgpr", tmpSgpr |-> -1, emitted |-> << >>]
  /\ UNCHANGED <<rp, live, removed>>

CalculateLoopNumIter ==
  \E unrollIncIsDepthU \in BOOLEAN, GlobalSplitU \in 1..2 :
    TmpCall("calculateLoopNumIter",
            calculateLoopNumIter(kernel, unrollIncIsDepthU, GlobalSplitU))

ChooseGlobalWrite ==
  \E useBuffer \in BOOLEAN, offset \in {0, 4095, 4096} :
    TmpCall("chooseGlobalWrite", chooseGlobalWrite(kernel, useBuffer, offset))

\* the collector finalizes an unreferenced TmpSgpr
CollectTmpSgpr ==
  /\ kernel.pc = "body"
  /\ \E regIdx \in kernel.garbage :
       kernel' = [TmpSgpr_del(kernel, regIdx) EXCEPT !.garbage = @ \ {regIdx}]
  /\ call' = [op |-> "TmpSgpr.__del__", tmpSgpr |-> -1, emitted |-> << >>]
  /\ UNCHANGED <<rp, live, removed>>

NextTmpSgpr ==
  \/ TmpDefineSgpr
  \/ CalculateLoopNumIter
  \/ ChooseGlobalWrite
  \/ CollectTmpSgpr

SpecTmpSgpr == InitTmpSgpr /\ [][NextTmpSgpr]_vars

\* ---- store batches: registers checked out by setupStoreElementsForBatch ----
\* line 1292 (bpr), line 1334 (rpga) and line 1338 (rpgo)
bpr == 4
rpga == 2
rpgo == 1

\* StoreConstConfig.__init__, lines 9268-9322, the vector register counts.
\* numVgprsPerDataPerVI can be a half-integer: numVgprsPerDataPerVI2 is
\* twice its value.
StoreConstConfig(BufferStore, bpeCexternal, optSingleColVgpr, gwvw, beta, atomic) ==
  LET regsPerElement == IF BufferStore THEN 2 ELSE 3
      nv2 == IF atomic THEN (2 * regsPerElement * bpeCexternal) \div bpr
             ELSE IF beta THEN (2 * bpeCexternal) \div bpr
             ELSE 0
  IN [gwvw |-> gwvw,
      numVgprsPerAddr |-> IF optSingleColVgpr = 1 THEN 0
                          ELSE IF BufferStore THEN rpgo ELSE rpga,
      numVgprsPerDataPerVI2 |-> nv2,
      numVgprPerValuC |-> 0,
      halfDataRegPerVI |-> gwvw * nv2 < 2]

\* the state carried through the element loops of one batch; fresh is the
\* start index the last checkOutAligned returned
BatchAcc(pool) ==
  [pool |-> pool, elementAddr |-> << >>, elementData |-> << >>, lastData |-> 0,
   exc |-> "none", warned |-> FALSE, outs |-> {}, fresh |-> -1]

batchCheckOutResult(acc, out) ==
  [acc EXCEPT !.pool = out.rp, !.exc = out.exc, !.fresh = out.ret,
              !.outs = IF out.exc = "none" THEN @ \cup {out.ret} ELSE @]

\* one checkOutAligned of the element loop
batchCheckOut(acc, sz, alignment, preventOverflow) ==
  batchCheckOutResult(acc, checkOutAligned(acc.pool, sz, alignment, preventOverflow))

addrResult(a) == [acc |-> a, addr |-> a.fresh]

\* lines 9496-9511: the address register of element elementIdx (elements of
\* one row: element k is column k)
elementAddrOf(ss, acc, elementIdx, isOptNLL) ==
  IF ss.optSingleColVgpr = 1 THEN [acc |-> acc, addr |-> ss.sharedColVgprs]
  ELSE IF ss.optSharedColVgpr = 1
       THEN [acc |-> acc, addr |-> ss.sharedColVgprs + elementIdx]
  ELSE addrResult(batchCheckOut(acc, ss.cfg.numVgprsPerAddr, ss.cfg.numVgprsPerAddr,
                                IF isOptNLL THEN 0 ELSE 1))

dataResult(a, setLastData) ==
  [acc |-> IF setLastData THEN [a EXCEPT !.lastData = a.fresh] ELSE a, data |-> a.fresh]

\* lines 9517-9540: the data register of element elementIdx
elementDataOf(ss, acc, elementIdx, hpaHalf, isOptNLL) ==
  IF ss.cfg.numVgprsPerDataPerVI2 > 0
  THEN IF ss.cfg.halfDataRegPerVI
       THEN IF hpaHalf \/ elementIdx % 2 = 0
            THEN dataResult(batchCheckOut(acc, ss.cfg.numVgprsPerDataPerVI2 * ss.cfg.gwvw,
                                          ss.cfg.numVgprsPerDataPerVI2 * ss.cfg.gwvw,
                                          IF isOptNLL THEN 0 ELSE 1),
                            ~hpaHalf)
            ELSE [acc |-> acc, data |-> acc.lastData]
       ELSE dataResult(batchCheckOut(acc,
                                     (ss.cfg.numVgprsPerDataPerVI2 * ss.cfg.gwvw) \div 2,
                                     (ss.cfg.numVgprsPerDataPerVI2 * ss.cfg.gwvw + 1) \div 2,
                                     0),
                       FALSE)
  ELSE [acc |-> acc, data |-> 0]

\* lines 9542-9543: the element's registers are appended to the lists
appendElement(addr, d) ==
  IF d.acc.exc = "none"
  THEN [d.acc EXCEPT !.elementAddr = Append(@, addr), !.elementData = Append(@, d.data)]
  ELSE d.acc

\* the data registers after the address registers a
setupElementData(ss, a, elementIdx, hpaHalf, isOptNLL) ==
  IF a.acc.exc = "none"
  THEN appendElement(a.addr, elementDataOf(ss, a.acc, elementIdx, hpaHalf, isOptNLL))
  ELSE a.acc

\* StoreState.setupStoreElementsForBatch, lines 9422-9570, for elements
\* elementIdx .. n-1; an exception ends the loop
RECURSIVE setupStoreElementsForBatch(_, _, _, _, _, _)
setupStoreElementsForBatch(ss, acc, elementIdx, n, hpaHalf, isOptNLL) ==
  IF elementIdx >= n \/ acc.exc # "none" THEN acc
  ELSE setupStoreElementsForBatch(
         ss,
         setupElementData(ss, elementAddrOf(ss, acc, elementIdx, isOptNLL), elementIdx,
                          hpaHalf, isOptNLL),
         elementIdx + 1, n, hpaHalf, isOptNLL)

batchCheckInResult(acc, out) ==
  [acc EXCEPT !.pool = out.rp, !.exc = out.exc, !.warned = @ \/ out.warned]

\* one checkIn of the return loop
batchCheckIn(acc, start) == batchCheckInResult(acc, checkIn(acc.pool, start))

\* lines 11583-11585: "not ss.sharedColVgprs" is true for None (-1 here) and
\* for register 0
returnAddr(ss, acc, elementIdx) ==
  IF ss.sharedColVgprs = -1 \/ ss.sharedColVgprs = 0
  THEN batchCheckIn(acc, acc.elementAddr[elementIdx + 1])
  ELSE acc

\* lines 11586-11590: "data != 0" is false for "no data register" and for
\* register 0
returnData(acc, elementIdx, lastData) ==
  IF /\ acc.exc = "none"
     /\ acc.elementData[elementIdx + 1] # 0
     /\ acc.elementData[elementIdx + 1] # lastData
  THEN batchCheckIn(acc, acc.elementData[elementIdx + 1])
  ELSE acc

\* globalWriteBatch, lines 11581-11591, "return registers to pool"
RECURSIVE returnRegisters(_, _, _, _)
returnRegisters(ss, acc, elementIdx, lastData) ==
  IF elementIdx >= Len(acc.elementAddr) \/ acc.exc # "none" THEN acc
  ELSE returnRegisters(ss, returnData(returnAddr(ss, acc, elementIdx), elementIdx, lastData),
                       elementIdx + 1, acc.elementData[elementIdx + 1])

returnAfterSetup(ss, setup) ==
  IF setup.exc # "none" THEN setup ELSE returnRegisters(ss, setup, 0, -1)

\* globalWriteBatch as far as the vector pool is concerned: the element
\* setup (line 10898) and the return of the registers; serializedStore is
\* off, so checkInTempVgprC returns at once (line 9573)
globalWriteBatchRegisters(ss, vgprPool, n, hpaHalf, isOptNLL) ==
  returnAfterSetup(ss, setupStoreElementsForBatch(ss, BatchAcc(vgprPool), 0, n, hpaHalf,
                                                  isOptNLL))

\* StoreState.__del__, lines 9584-9587
StoreState_del(ss, vgprPool) ==
  IF ss.sharedColVgprs # -1 THEN checkIn(vgprPool, ss.sharedColVgprs)
  ELSE Outcome(vgprPool, -1, "none", FALSE, "none")

\* the vector pools a store path can start from: totalVgprs Unavailable
\* registers and one range added to the pool
BatchPools ==
  {add(RegisterPoolInit(t, 0), start, sz).rp :
     t \in 0..MaxInit, start \in 0..MaxInit, sz \in 1..MaxPool}

BatchConfigs ==
  [BufferStore : BOOLEAN, PackedC0 : 1..2, PackedC1 : {1},
   UseInitialStridesCD : BOOLEAN, StoreRemapVectorWidth : {0}]

InitBatch ==
  /\ rp \in BatchPools
  /\ call = NoCall
  /\ live = EmptyBag
  /\ removed = {}
  /\ kernel = [pc |-> "globalWriteElements", batches |-> 0, warned |-> FALSE,
               exc |-> "none"]

\* the state after the constructor returned ss, c is its StoreConstConfig
AfterStoreState(ss, c, numCols, hpaHalf, isOptNLL) ==
  /\ rp' = ss.vgprPool
  /\ kernel' = [pc |-> IF ss.exc = "none" THEN "batches" ELSE "failed",
                batches |-> 0, warned |-> FALSE, exc |-> ss.exc,
                numCols |-> numCols, hpaHalf |-> hpaHalf, isOptNLL |-> isOptNLL,
                ss |-> [optSingleColVgpr |-> ss.optSingleColVgpr,
                        optSharedColVgpr |-> ss.optSharedColVgpr,
                        sharedColVgprs |-> ss.sharedColVgprs,
                        cfg |-> c]]
  /\ call' = [op |-> "StoreState", outs |-> {}, elementData |-> << >>]

StoreStateWithConfig(ss, BufferStore, bpeCexternal, gwvw, beta, atomic, numCols, hpaHalf,
                     isOptNLL) ==
  AfterStoreState(ss, StoreConstConfig(BufferStore, bpeCexternal, ss.optSingleColVgpr,
                                       gwvw, beta, atomic),
                  numCols, hpaHalf, isOptNLL)

\* globalWriteElements, line 10313: self.ss = self.StoreState(...)
BatchStoreState ==
  /\ kernel.pc = "globalWriteElements"
  /\ \E cfg \in BatchConfigs, beta \in BOOLEAN, atomic \in BOOLEAN,
        gwvw \in 1..2, bpeCexternal \in {2, 4, 8}, hpaHalf \in BOOLEAN,
        isOptNLL \in BOOLEAN, numCols \in 1..MaxElements :
       StoreStateWithConfig(StoreState(rp, cfg, FALSE, atomic, numCols), cfg.BufferStore,
                            bpeCexternal, gwvw, beta, atomic, numCols, hpaHalf, isOptNLL)
  /\ UNCHANGED <<live, removed>>

\* the state after a batch left the registers r
AfterGlobalWriteBatch(r) ==
  /\ Len(r.pool.pool) <= MaxPool + MaxElements
  /\ rp' = r.pool
  /\ kernel' = [kernel EXCEPT !.pc = IF r.exc = "none" THEN "batches" ELSE "failed",
                              !.batches = @ + 1,
                              !.warned = @ \/ r.warned,
                              !.exc = r.exc]
  /\ call' = [op |-> "globalWriteBatch", outs |-> r.outs, elementData |-> r.elementData]

\* one call of globalWriteBatch (lines 10482-10485)
GlobalWriteBatch ==
  /\ kernel.pc = "batches"
  /\ kernel.batches < MaxBatches
  /\ \E n \in 1..kernel.numCols :
       AfterGlobalWriteBatch(globalWriteBatchRegisters(kernel.ss, rp, n, kernel.hpaHalf,
                                                       kernel.isOptNLL))
  /\ UNCHANGED <<live, removed>>

AfterStoreStateDel(out) ==
  /\ rp' = out.rp
  /\ kernel' = [kernel EXCEPT !.pc = IF out.exc = "none" THEN "deleted" ELSE "failed",
                              !.warned = @ \/ out.warned,
                              !.exc = out.exc]
  /\ call' = [op |-> "StoreState.__del__", outs |-> {}, elementData |-> << >>]

\* globalWriteElements, line 10488: del self.ss
BatchStoreStateDel ==
  /\ kernel.pc = "batches"
  /\ AfterStoreStateDel(StoreState_del(kernel.ss, rp))
  /\ UNCHANGED <<live, removed>>

NextBatch ==
  \/ BatchStoreState
  \/ GlobalWriteBatch
  \/ BatchStoreStateDel

SpecBatch == InitBatch /\ [][NextBatch]_vars

\* ---- wait counts ----
\* globalParameters["AsmCaps"][version]: the largest encodable counts
AsmCaps ==
  {[MaxLgkmcnt |-> l, MaxVmcnt |-> v] : l \in {MaxCnt, 15}, v \in {MaxCnt, 63}}

\* Code.WaitCnt: one s_waitcnt that has a field for every count that is not -1
WaitCnt(lgkmcnt, vmcnt) ==
  [lgkmcnt |-> lgkmcnt, vmcnt |-> vmcnt, barrier |-> FALSE]

\* the number of local writes of one tile (lines 11746-11749)
numLocalWrites(DirectToLds, tP) ==
  IF DirectToLds THEN 0
  ELSE (tP.nrp * tP.nrc * Max(tP.nwcv, tP.nwpv)) \div tP.nwcvpi

\* the counts wait() asks for, lines 11741-11765, before the maximum and
\* before line 11779
waitRequested(self, tPA, tPB, skipGlobalRead, skipLocalWrite, skipLocalRead) ==
  LET lw == IF skipLocalWrite > -1
            THEN skipLocalWrite * (numLocalWrites(self.DirectToLdsA, tPA)
                                   + numLocalWrites(self.DirectToLdsB, tPB))
            ELSE 0
      lr == IF skipLocalRead > -1
            THEN skipLocalRead * (self.numReadsPerIterA + self.numReadsPerIterB)
            ELSE 0
      lgkmcnt0 == IF skipLocalWrite > -1 \/ skipLocalRead > -1 THEN lw + lr ELSE -1
      gr == skipGlobalRead * (self.numLoadsA + self.numLoadsB)
      vmcnt == IF skipGlobalRead > -1 THEN gr ELSE -1
      lgkmcnt == IF skipGlobalRead > -1 /\ lgkmcnt0 > -1 /\ ~self.BufferLoad
                 THEN lgkmcnt0 + gr ELSE lgkmcnt0
  IN [lgkmcnt |-> lgkmcnt, vmcnt |-> vmcnt]

\* wait(), lines 11736-11791
wait(self, tPA, tPB, skipGlobalRead, skipLocalWrite, skipLocalRead) ==
  LET req == waitRequested(self, tPA, tPB, skipGlobalRead, skipLocalWrite, skipLocalRead)
      conservative ==
        \/ self.ConservativeWaitCnt[2] /\ skipGlobalRead # -1
        \/ self.ConservativeWaitCnt[4] /\ skipLocalWrite # -1
        \/ self.ConservativeWaitCnt[8] /\ skipLocalRead # -1
      lgkmcnt == Min(req.lgkmcnt, self.caps.MaxLgkmcnt)
      vmcnt == IF lgkmcnt >= 0 /\ req.vmcnt >= 0 THEN -1
               ELSE Min(req.vmcnt, self.caps.MaxVmcnt)
  IN IF conservative THEN [lgkmcnt |-> 0, vmcnt |-> 0, barrier |-> TRUE]
     ELSE WaitCnt(lgkmcnt, vmcnt)

\* tP["nrp"], tP["nrc"], tP["nwcv"], tP["nwpv"], tP["nwcvpi"]
TileParams ==
  {[nrp |-> 1, nrc |-> 1, nwcv |-> 1, nwpv |-> 1, nwcvpi |-> 1],
   [nrp |-> 1, nrc |-> 2, nwcv |-> 2, nwpv |-> 1, nwcvpi |-> 2]}

\* the wave that runs the emitted code: lds, buf and flat are the
\* scratchpad operations, buffer loads and flat loads in flight.  A flat
\* load counts in both hardware counters.
vmOutstanding(k) == k.buf + k.flat
lgkmOutstanding(k) == k.lds + k.flat

InitWait ==
  /\ rp = RegisterPoolInit(0, 0)
  /\ call = NoCall
  /\ live = EmptyBag
  /\ removed = {}
  /\ \E BufferLoad \in BOOLEAN, caps \in AsmCaps, c2 \in BOOLEAN, dtl \in BOOLEAN :
       kernel = [pc |-> "run", lds |-> 0, buf |-> 0, flat |-> 0,
                 BufferLoad |-> BufferLoad, caps |-> caps,
                 DirectToLdsA |-> dtl, DirectToLdsB |-> FALSE,
                 numReadsPerIterA |-> 1, numReadsPerIterB |-> 1,
                 numLoadsA |-> 1, numLoadsB |-> 1,
                 ConservativeWaitCnt |-> [b \in {2, 4, 8} |-> c2 /\ b = 2],
                 req |-> [lgkmcnt |-> -1, vmcnt |-> -1],
                 waitcnt |-> WaitCnt(-1, -1)]

\* the wave issues a global read
IssueGlobalRead ==
  /\ kernel.pc = "run"
  /\ vmOutstanding(kernel) < MaxOutstanding
  /\ lgkmOutstanding(kernel) < MaxOutstanding
  /\ kernel' = IF kernel.BufferLoad THEN [kernel EXCEPT !.buf = @ + 1]
               ELSE [kernel EXCEPT !.flat = @ + 1]
  /\ call' = [op |-> "globalRead"]
  /\ UNCHANGED <<rp, live, removed>>

\* the wave issues a local read or a local write
IssueLocal ==
  /\ kernel.pc = "run"
  /\ lgkmOutstanding(kernel) < MaxOutstanding
  /\ kernel' = [kernel EXCEPT !.lds = @ + 1]
  /\ call' = [op |-> "local"]
  /\ UNCHANGED <<rp, live, removed>>

\* the memory system completes the oldest operation of one kind
CompleteOne ==
  /\ \E f \in {"lds", "buf", "flat"} :
       /\ kernel[f] > 0
       /\ kernel' = [kernel EXCEPT ![f] = @ - 1]
  /\ call' = [op |-> "complete"]
  /\ UNCHANGED <<rp, live, removed>>

\* the wave reaches the code that wait() emitted
ReachWait ==
  /\ kernel.pc = "run"
  /\ \E tPA \in TileParams, tPB \in TileParams,
        skipGlobalRead \in -1..1, skipLocalWrite \in -1..1, skipLocalRead \in -1..1 :
       /\ kernel' = [kernel EXCEPT
            !.pc = "waiting",
            !.req = waitRequested(kernel, tPA, tPB, skipGlobalRead, skipLocalWrite,
                                  skipLocalRead),
            !.waitcnt = wait(kernel, tPA, tPB, skipGlobalRead, skipLocalWrite,
                             skipLocalRead)]
  /\ call' = [op |-> "wait"]
  /\ UNCHANGED <<rp, live, removed>>

\* s_waitcnt lets the wave go on when every counter it names is low enough
PassWait ==
  /\ kernel.pc = "waiting"
  /\ kernel.waitcnt.lgkmcnt # -1 => lgkmOutstanding(kernel) <= kernel.waitcnt.lgkmcnt
  /\ kernel.waitcnt.vmcnt # -1 => vmOutstanding(kernel) <= kernel.waitcnt.vmcnt
  /\ kernel' = [kernel EXCEPT !.pc = "run"]
  /\ call' = [op |-> "passed"]
  /\ UNCHANGED <<rp, live, removed>>

NextWait ==
  \/ IssueGlobalRead
  \/ IssueLocal
  \/ CompleteOne
  \/ ReachWait
  \/ PassWait

SpecWait == InitWait /\ [][NextWait]_vars

\* ---- interleaved store waits of a beta store batch ----
\* chooseGlobalRead (lines 10506-10580) and chooseGlobalWrite (lines
\* 10584-10640): the number of buffer instructions for bps bytes
numBufferInsts(bps) == IF bps = 32 THEN 2 ELSE 1

interleavedVmcnt_countOwnLoad(loadsIssued, elementIdx, storesIssued, SeparateVscnt, maxVmcnt) ==
  Min(IF SeparateVscnt THEN loadsIssued - elementIdx
      ELSE loadsIssued - elementIdx + storesIssued, maxVmcnt)

\* globalWriteBatch, lines 11387-11396: the count of the wait before
\* element elementIdx is combined with C
interleavedVmcnt(loadsIssued, elementIdx, storesIssued, SeparateVscnt, maxVmcnt) ==
  Min(IF SeparateVscnt THEN loadsIssued - elementIdx - 1
      ELSE loadsIssued - elementIdx + storesIssued - 1, maxVmcnt)

\* the instructions of one kind for one element
InstsOf(op, elementIdx, n) ==
  [k \in 1..n |-> [op |-> op, elementIdx |-> elementIdx, vmcnt |-> -1]]

\* globalWriteBatch, lines 10917-10940: the loads of elements
\* elementIdx..n-1; loadsIssued grows by one for each element
RECURSIVE batchLoads(_, _, _)
batchLoads(elementIdx, n, bps) ==
  IF elementIdx >= n THEN << >>
  ELSE InstsOf("load", elementIdx, numBufferInsts(bps)) \o batchLoads(elementIdx + 1, n, bps)

\* globalWriteBatch, lines 11317-11508, not edge, beta, BufferStore, no
\* StoreRemap: for each element the wait, the instructions that combine
\* the C value, and the store; storesIssued grows by one for each element
RECURSIVE batchStores(_, _, _, _, _, _)
batchStores(elementIdx, n, bps, storesIssued, SeparateVscnt, maxVmcnt) ==
  IF elementIdx >= n THEN << >>
  ELSE << [op |-> "wait", elementIdx |-> elementIdx,
           vmcnt |-> interleavedVmcnt(n, elementIdx, storesIssued, SeparateVscnt, maxVmcnt)],
          [op |-> "consume", elementIdx |-> elementIdx, vmcnt |-> -1] >>
       \o InstsOf("store", elementIdx, numBufferInsts(bps))
       \o batchStores(elementIdx + 1, n, bps, storesIssued + 1, SeparateVscnt, maxVmcnt)

\* the instructions globalWriteBatch emits that issue, await or use
\* vector memory operations
globalWriteBatchCode(n, bps, SeparateVscnt, maxVmcnt) ==
  batchLoads(0, n, bps) \o batchStores(0, n, bps, 0, SeparateVscnt, maxVmcnt)

\* the operations in flight that vmcnt counts
countsInVmcnt(inst, SeparateVscnt) ==
  inst.op = "load" \/ (inst.op = "store" /\ ~SeparateVscnt)

InitStoreWait ==
  /\ rp = RegisterPoolInit(0, 0)
  /\ call = NoCall
  /\ live = EmptyBag
  /\ removed = {}
  /\ \E n \in 1..(MaxElements + 2), bps \in {4, 32}, SeparateVscnt \in BOOLEAN,
        caps \in AsmCaps :
       kernel = [code |-> globalWriteBatchCode(n, bps, SeparateVscnt, caps.MaxVmcnt),
                 pc |-> 1, SeparateVscnt |-> SeparateVscnt, n |-> n,
                 vm |-> << >>, vs |-> 0, consumedInFlight |-> FALSE]

\* the wave executes the instruction at pc
WaveStep ==
  /\ kernel.pc <= Len(kernel.code)
  /\ LET inst == kernel.code[kernel.pc]
     IN /\ inst.op = "wait" => Len(kernel.vm) <= inst.vmcnt
        /\ kernel' = [kernel EXCEPT
             !.pc = @ + 1,
             !.vm = IF countsInVmcnt(inst, kernel.SeparateVscnt) THEN Append(@, inst) ELSE @,
             !.vs = IF inst.op = "store" /\ kernel.SeparateVscnt THEN @ + 1 ELSE @,
             !.consumedInFlight =
                IF inst.op = "consume"
                THEN \E k \in 1..Len(kernel.vm) :
                        kernel.vm[k].op = "load" /\ kernel.vm[k].elementIdx = inst.elementIdx
                ELSE @]
        /\ call' = [op |-> inst.op, elementIdx |-> inst.elementIdx, vmcnt |-> inst.vmcnt]
  /\ UNCHANGED <<rp, live, removed>>

\* the oldest vector memory operation completes
VmComplete ==
  /\ kernel.vm # << >>
  /\ kernel' = [kernel EXCEPT !.vm = Tail(@)]
  /\ call' = [op |-> "vmComplete", elementIdx |-> -1, vmcnt |-> -1]
  /\ UNCHANGED <<rp, live, removed>>

\* a store completes on a target that counts stores apart
VsComplete ==
  /\ kernel.vs > 0
  /\ kernel' = [kernel EXCEPT !.vs = @ - 1]
  /\ call' = [op |-> "vsComplete", elementIdx |-> -1, vmcnt |-> -1]
  /\ UNCHANGED <<rp, live, removed>>

NextStoreWait ==
  \/ WaveStep
  \/ VmComplete
  \/ VsComplete

SpecStoreWait == InitStoreWait /\ [][NextStoreWait]_vars

\* ---- the lane execution mask of a store batch ----
\* the instructions of globalWriteBatch that read or write exec, an
\* element's mask, tmpS01 or tmpS23, and the memory instructions
I(op, e, avi) == [op |-> op, e |-> e, avi |-> avi, target |-> 0]
Branch(op, target) == [op |-> op, e |-> -1, avi |-> -1, target |-> target]

\* the sequences f[0] .. f[n-1] one after the other
RECURSIVE Concat(_, _, _)
Concat(f, e, n) == IF e >= n THEN << >> ELSE f[e] \o Concat(f, e + 1, n)

ForElements(n, f) == Concat(f, 0, n)

\* AddrCalc.edgeProtectCode, lines 9833-9871 (StoreRemapVectorWidth 0)
edgeProtectCode(cfg, e) ==
  IF cfg.BufferStore
  THEN IF cfg.edge THEN << I("v_cmp_inbounds", e, -1) >> ELSE << >>
  ELSE << I("v_cmp_inbounds", e, -1) >>
       \o (IF cfg.beta \/ cfg.atomic THEN << I("s_mov_exec_mask", e, -1) >> ELSE << >>)

\* globalWriteBatch, lines 10917-10978: addresses, masks and loads
batchAddrAndLoads(cfg, n) ==
  ForElements(n, [e \in 0..(n - 1) |->
    (IF cfg.edge THEN edgeProtectCode(cfg, e) ELSE << >>)
    \o (IF cfg.beta THEN << I("load", e, -1) >> ELSE << >>)
    \o (IF cfg.atomic /\ ~cfg.useAtomicAdd
        THEN [a \in 1..cfg.numAvi |-> I("load", e, a - 1)] ELSE << >>)
    \o (IF ~cfg.BufferStore /\ cfg.edge /\ (cfg.beta \/ cfg.atomic)
        THEN << I("s_mov_exec_full", -1, -1) >> ELSE << >>)])

\* the native atomic adds without the full mask at the end
batchAtomicAdd_noRestore(cfg, n) ==
  ForElements(n, [e \in 0..(n - 1) |->
    (IF cfg.edge THEN << I("s_mov_exec_mask", e, -1) >> ELSE << >>)
    \o (IF cfg.BufferStore
        THEN [a \in 1..cfg.numAvi |-> I("atomic_add", e, a - 1)]
        ELSE << >>)])

\* globalWriteBatch, lines 11041-11073: native atomic add
batchAtomicAdd(cfg, n) ==
  ForElements(n, [e \in 0..(n - 1) |->
    (IF cfg.edge THEN << I("s_mov_exec_mask", e, -1) >> ELSE << >>)
    \o (IF cfg.BufferStore
        THEN [a \in 1..cfg.numAvi |-> I("atomic_add", e, a - 1)]
        ELSE << >>)])
  \o (IF cfg.edge THEN << I("s_mov_exec_full", -1, -1) >> ELSE << >>)

\* lines 11204-11209 and 11296-11304: or the masks of all elements
orMasks(n) ==
  << I("s_mov_tmpS01_0", -1, -1) >>
  \o [k \in 1..n |-> I("s_or_tmpS01_mask", k - 1, -1)]
  \o << I("s_or_saveexec", -1, -1) >>

\* globalWriteBatch, lines 11074-11308: the compare-and-swap loop; base is
\* the number of instructions before it
batchCasLoop(cfg, n, base) ==
  LET first == ForElements(n, [e \in 0..(n - 1) |->
                 (IF cfg.edge THEN << I("s_mov_exec_mask", e, -1) >> ELSE << >>)
                 \o [a \in 1..cfg.numAvi |-> I("cmpswap", e, a - 1)]])
      check == ForElements(n, [e \in 0..(n - 1) |->
                 IF cfg.edge
                 THEN << I("s_mov_exec_mask", e, -1) >>
                      \o [a \in 1..cfg.numAvi |->
                            I(IF a = 1 THEN "v_cmp_ne_tmpS01" ELSE "v_cmp_ne_or_tmpS01", e, a - 1)]
                      \o << I("s_and_mask_tmpS01", e, -1) >>
                 ELSE [a \in 1..cfg.numAvi |-> I("v_cmp_ne_mask", e, a - 1)]])
      retry == ForElements(n, [e \in 0..(n - 1) |->
                 Concat([a \in 0..(cfg.numAvi - 1) |->
                           << I("s_mov_exec_mask", e, a), I("cmpswap", e, a) >>],
                        0, cfg.numAvi)])
      recheck == ForElements(n, [e \in 0..(n - 1) |->
                 Concat([a \in 0..(cfg.numAvi - 1) |->
                           << I("s_mov_exec_mask", e, a), I("v_cmp_ne_tmpS01", e, a),
                              I("s_and_mask_tmpS01", e, a) >>],
                        0, cfg.numAvi)])
      head == first \o check \o orMasks(n)
      label == base + Len(head) + 2
      body == retry \o recheck \o orMasks(n)
      labelAfterAtomicLoop == label + Len(body) + 1
  IN head \o << Branch("s_cbranch_execz", labelAfterAtomicLoop) >>
     \o body \o << Branch("s_cbranch_execnz", label) >>
     \o << I("s_mov_exec_full", -1, -1) >>

\* globalWriteBatch, lines 11310-11572: not atomic
batchPlainStore(cfg, n) ==
  ForElements(n, [e \in 0..(n - 1) |->
    (IF cfg.edge /\ ~cfg.BufferStore THEN << I("s_mov_exec_mask", e, -1) >> ELSE << >>)
    \o << I("store", e, -1) >>])
  \o (IF cfg.edge /\ (cfg.atomic \/ ~cfg.BufferStore)
      THEN << I("s_mov_exec_full", -1, -1) >> ELSE << >>)

\* globalWriteBatch, lines 10874-11614
globalWriteBatchExec(cfg, n) ==
  LET pre == batchAddrAndLoads(cfg, n)
  IN pre \o (IF cfg.atomic
             THEN IF cfg.useAtomicAdd THEN batchAtomicAdd(cfg, n)
                  ELSE batchCasLoop(cfg, n, Len(pre))
             ELSE batchPlainStore(cfg, n))

ExecConfigs ==
  [atomic : BOOLEAN, useAtomicAdd : BOOLEAN, edge : BOOLEAN, BufferStore : BOOLEAN,
   beta : BOOLEAN, numAvi : 1..MaxAvi]

InitExec ==
  /\ rp = RegisterPoolInit(0, 0)
  /\ call = NoCall
  /\ live = EmptyBag
  /\ removed = {}
  /\ \E cfg \in ExecConfigs, n \in 1..MaxElements :
       kernel = [cfg |-> cfg, n |-> n, code |-> globalWriteBatchExec(cfg, n), pc |-> 1,
                 exec |-> Lanes, mask |-> [e \in 0..(n - 1) |-> Lanes],
                 tmpS01 |-> {}, tmpS23 |-> {},
                 added |-> [e \in 0..(n - 1) |-> [a \in 0..(cfg.numAvi - 1) |-> 0]]]

\* the wave executes the instruction at pc; a compare writes the bits of the
\* active lanes only, and any of them may be set
ExecStep ==
  /\ kernel.pc <= Len(kernel.code)
  /\ LET inst == kernel.code[kernel.pc]
         e == inst.e
     IN \E lanes \in SUBSET kernel.exec :
          /\ inst.op \notin {"v_cmp_inbounds", "v_cmp_ne_tmpS01", "v_cmp_ne_or_tmpS01",
                             "v_cmp_ne_mask"} => lanes = {}
          /\ kernel' = [kernel EXCEPT
               !.pc = IF \/ inst.op = "s_cbranch_execz" /\ kernel.exec = {}
                         \/ inst.op = "s_cbranch_execnz" /\ kernel.exec # {}
                      THEN inst.target ELSE @ + 1,
               !.exec = CASE inst.op = "s_mov_exec_mask" -> kernel.mask[e]
                          [] inst.op = "s_mov_exec_full" -> Lanes
                          [] inst.op = "s_or_saveexec" -> kernel.tmpS01 \cup @
                          [] OTHER -> @,
               !.tmpS23 = IF inst.op = "s_or_saveexec" THEN kernel.exec ELSE @,
               !.tmpS01 = CASE inst.op = "v_cmp_ne_tmpS01" -> lanes
                            [] inst.op = "v_cmp_ne_or_tmpS01" -> @ \cup lanes
                            [] inst.op = "s_mov_tmpS01_0" -> {}
                            [] inst.op = "s_or_tmpS01_mask" -> kernel.mask[e] \cup @
                            [] OTHER -> @,
               !.mask = CASE inst.op \in {"v_cmp_inbounds", "v_cmp_ne_mask"} ->
                               [@ EXCEPT ![e] = lanes]
                          [] inst.op = "s_and_mask_tmpS01" ->
                               [@ EXCEPT ![e] = kernel.tmpS01 \cap @]
                          [] OTHER -> @,
               !.added = IF inst.op = "atomic_add"
                         THEN [@ EXCEPT ![e][inst.avi] = 1] ELSE @]
          /\ call' = [op |-> inst.op, e |-> e]
  /\ UNCHANGED <<rp, live, removed>>

NextExec ==
  \/ ExecStep

SpecExec == InitExec /\ [][NextExec]_vars

\* ---- buffer descriptors: base and limit ----
\* the carry out of A + B + carry
RECURSIVE carryFrom(_, _, _, _)
carryFrom(A, B, k, carry) ==
  IF k > Len(A) THEN carry
  ELSE carryFrom(A, B, k + 1, (A[k] + B[k] + carry) \div 256)

\* s_add_u32 and s_addc_u32: the sum and SCC, the carry out
s_addc_u32(A, B, scc) == [d |-> addFrom(A, B, 1, scc), scc |-> carryFrom(A, B, 1, scc)]

Complement(B) == [k \in 1..Len(B) |-> 255 - B[k]]

\* s_sub_u32 and s_subb_u32: the difference and SCC, the borrow out
s_subb_u32(A, B, scc) ==
  [d |-> addFrom(A, Complement(B), 1, 1 - scc),
   scc |-> 1 - carryFrom(A, Complement(B), 1, 1 - scc)]

Zero32 == Reg32(0, 0)

\* incrementSrd, lines 6633-6653: the limit registers after the increment
\* (limit is ShadowLimit, 8 bytes, or Srd+2, 4 bytes)
srdLimitAfter(limit, incLower, incUpper) ==
  IF Len(limit) = 8
  THEN LET lower == s_subb_u32(lo32(limit), incLower, 0)
           upper == s_subb_u32(hi32(limit), incUpper, lower.scc)
       IN lower.d \o upper.d
  ELSE s_subb_u32(limit, incLower, 0).d

\* incrementSrd, lines 6616-6653
incrementSrd(self, incLower, incUpper, checkShadowLimitCopy) ==
  LET lower == s_addc_u32(lo32(self.Srd01), incLower, 0)
      upper == s_addc_u32(hi32(self.Srd01), incUpper, lower.scc)
      base == lower.d \o upper.d
  IN IF self.use64bShadowLimit
     THEN LET shadow == srdLimitAfter(self.ShadowLimit, incLower, incUpper)
          IN [self EXCEPT !.Srd01 = base, !.ShadowLimit = shadow,
                          !.Srd2 = IF checkShadowLimitCopy /\ hi32(shadow) = Zero32
                                   THEN lo32(shadow) ELSE @]
     ELSE [self EXCEPT !.Srd01 = base,
                       !.Srd2 = srdLimitAfter(self.Srd2, incLower, incUpper)]

\* allocPostLoopSrd, lines 8768-8776: the descriptor of C or D
allocPostLoopSrd(self, Address) ==
  [self EXCEPT !.Srd01 = Address, !.Srd2 = <<0, 0, 0, 128>>]

\* AddrCalc.incrementToNextRow, lines 10003-10043, with optSrdIncForRow
incrementToNextRow(self, strideCD1, numRows, tmpBpe) ==
  IF numRows = 0 THEN self
  ELSE LET stmp == s_mul_i32(strideCD1, Reg32(0, numRows * tmpBpe))
           lower == s_addc_u32(lo32(self.Srd01), stmp, 0)
           upper == s_addc_u32(hi32(self.Srd01), Zero32, lower.scc)
       IN [self EXCEPT !.Srd01 = lower.d \o upper.d]

\* base + limit of a descriptor: with the 64-bit shadow limit in 64 bits,
\* else the lower word of the base plus Srd+2
baseplusLimit(self) ==
  IF self.use64bShadowLimit THEN addFrom(self.Srd01, self.ShadowLimit, 1, 0)
  ELSE add_u32(lo32(self.Srd01), self.Srd2)

SrdAddresses == {Zero32 \o Zero32, Reg32(65535, 65280) \o Reg32(0, 1)}
SrdIncs == {Reg32(0, 256), Reg32(65535, 65280)}
SrdLimits == {Reg32(0, 1024), Reg32(1, 0)}

InitSrd ==
  /\ rp = RegisterPoolInit(0, 0)
  /\ call = NoCall
  /\ live = EmptyBag
  /\ removed = {}
  /\ \E use64bShadowLimit \in BOOLEAN, Address \in SrdAddresses, limit \in SrdLimits,
        upper \in {Zero32, Reg32(0, 1)} :
       kernel = [tc |-> "A", steps |-> 0, use64bShadowLimit |-> use64bShadowLimit,
                 Srd01 |-> Address, Srd2 |-> limit, ShadowLimit |-> limit \o upper,
                 Address |-> Address, before |-> Zero32]

\* the global read increment of the loop
IncrementSrd ==
  /\ kernel.tc = "A"
  /\ kernel.steps < MaxSrdSteps
  /\ \E incLower \in SrdIncs, checkShadowLimitCopy \in BOOLEAN :
       LET incUpper == IF incLower[4] >= 128 THEN Reg32(65535, 65535) ELSE Zero32
           after == incrementSrd(kernel, incLower, incUpper, checkShadowLimitCopy)
       IN kernel' = [after EXCEPT !.steps = @ + 1, !.before = baseplusLimit(kernel)]
  /\ call' = [op |-> "incrementSrd"]
  /\ UNCHANGED <<rp, live, removed>>

\* the store path sets up the descriptor of C or D
AllocPostLoopSrd ==
  /\ kernel.tc = "A"
  /\ \E tc \in {"C", "D"} :
       LET k == [kernel EXCEPT !.tc = tc, !.use64bShadowLimit = FALSE, !.steps = 0]
           after == allocPostLoopSrd(k, kernel.Address)
       IN kernel' = [after EXCEPT !.before = baseplusLimit(after)]
  /\ call' = [op |-> "allocPostLoopSrd"]
  /\ UNCHANGED <<rp, live, removed>>

\* a store or a load of C moves the descriptor to the next rows
IncrementToNextRow ==
  /\ kernel.tc \in {"C", "D"}
  /\ kernel.steps < MaxSrdSteps
  /\ \E strideCD1 \in {Reg32(0, 1), Reg32(0, 256)}, numRows \in 1..2, tmpBpe \in {2, 4} :
       LET after == incrementToNextRow(kernel, strideCD1, numRows, tmpBpe)
       IN kernel' = [after EXCEPT !.steps = @ + 1, !.before = baseplusLimit(kernel)]
  /\ call' = [op |-> "incrementToNextRow"]
  /\ UNCHANGED <<rp, live, removed>>

NextSrd ==
  \/ IncrementSrd
  \/ AllocPostLoopSrd
  \/ IncrementToNextRow

SpecSrd == InitSrd /\ [][NextSrd]_vars

\* ---- batch sizing of globalWriteElements ----
\* RegisterPool.available, lines 308-313
RECURSIVE availableFrom(_, _)
availableFrom(p, n) ==
  IF n = 0 THEN 0
  ELSE (IF p[n] = Available THEN 1 ELSE 0) + availableFrom(p, n - 1)

available(self) == availableFrom(self.pool, Len(self.pool))

\* RegisterPool.availableBlock, lines 317-331: the loop from list position k
\* with the counters blocksAvail and consecAvailable
RECURSIVE blocksAvailFrom(_, _, _, _, _)
blocksAvailFrom(p, blockSize, k, blocksAvail, consecAvailable) ==
  IF k > Len(p) THEN blocksAvail + consecAvailable \div blockSize
  ELSE IF p[k] = Available
       THEN blocksAvailFrom(p, blockSize, k + 1, blocksAvail, consecAvailable + 1)
       ELSE blocksAvailFrom(p, blockSize, k + 1,
                            blocksAvail + consecAvailable \div blockSize, 0)

availableBlock(self, blockSize) ==
  LET b == IF blockSize = 0 THEN 1 ELSE blockSize
  IN blocksAvailFrom(self.pool, b, 1, 0, 0) * b

\* lines 10379-10383: minElements checkOuts of numVgprsPerElement registers
\* and their checkIns
RECURSIVE growPoolForGlobalWrite(_, _, _, _)
growPoolCheckedOut(out, numVgprsPerElement, k, tl) ==
  growPoolForGlobalWrite(out.rp, numVgprsPerElement, k - 1, Append(tl, out.ret))

growPoolForGlobalWrite(vgprPool, numVgprsPerElement, k, tl) ==
  IF k = 0
  THEN IF tl = << >> THEN vgprPool
       ELSE growPoolForGlobalWrite(checkIn(vgprPool, Head(tl)).rp, numVgprsPerElement,
                                   0, Tail(tl))
  ELSE growPoolCheckedOut(checkOut(vgprPool, numVgprsPerElement, -1), numVgprsPerElement,
                          k, tl)

\* line 10408: the test that marks a half or bfloat16 kernel whose batch
\* is not larger than one element
halfBatchOverflows(numElementsPerBatch, EnableMatrixInstruction) ==
  numElementsPerBatch <= 1 /\ ~EnableMatrixInstruction

\* lines 10386-10431: the batch size from the registers counted
\* (serializedStore off, StoreRemapVectorWidth 0)
sizedBatch(vgprPool, numVgprsPerElement, numVgprAvailable, ss, p, lenElements, lenFirstRow) ==
  LET n0 == IF numVgprsPerElement # 0 THEN numVgprAvailable \div numVgprsPerElement
            ELSE lenElements
      n1 == Min(n0, p.numElementsPerBatchLimitedBySgprs)
      n2 == IF p.DataTypeHalf /\ n1 > 1 THEN (n1 \div 2) * 2 ELSE n1
      marked == p.DataTypeHalf /\ halfBatchOverflows(n1, p.EnableMatrixInstruction)
      n3 == IF p.atomic /\ (ss.optSingleColVgpr = 1 \/ ss.optSharedColVgpr = 1)
            THEN Min(lenFirstRow, n2) ELSE n2
  IN [vgprPool |-> vgprPool,
      numVgprsPerElement |-> numVgprsPerElement,
      computed |-> n1,
      numElementsPerBatch |-> n3,
      overflowedResources |-> IF marked THEN 3 ELSE 0,
      exc |-> IF n2 > 0 THEN "none" ELSE "AssertionError"]

\* line 10384: after the pool grew, available() counts the registers
sizedAfterGrowing(grown, numVgprsPerElement, ss, p, lenElements, lenFirstRow) ==
  sizedBatch(grown, numVgprsPerElement, available(grown), ss, p, lenElements, lenFirstRow)

\* lines 10341-10384: the registers counted, the pool grown when they are
\* fewer than minElements elements need
sizedFor(vgprPool, numVgprsPerElement, minElements, ss, p, lenElements, lenFirstRow) ==
  IF availableBlock(vgprPool, numVgprsPerElement) < minElements * numVgprsPerElement
  THEN sizedAfterGrowing(
         growPoolForGlobalWrite(vgprPool, numVgprsPerElement, minElements, << >>),
         numVgprsPerElement, ss, p, lenElements, lenFirstRow)
  ELSE sizedBatch(vgprPool, numVgprsPerElement,
                  availableBlock(vgprPool, numVgprsPerElement),
                  ss, p, lenElements, lenFirstRow)

\* globalWriteElements, lines 10327-10431: p has the problem type and the
\* kernel parameters, lenElements and lenFirstRow the element counts
batchSizing(vgprPool, ss, p, lenElements, lenFirstRow) ==
  sizedFor(vgprPool,
           ss.cfg.numVgprPerValuC * ss.cfg.gwvw + ss.cfg.numVgprsPerAddr
             + (ss.cfg.numVgprsPerDataPerVI2 * ss.cfg.gwvw + 1) \div 2,
           IF p.DataTypeHalf THEN 2 ELSE 1,
           ss, p, lenElements, lenFirstRow)

\* the vector pools at sizing time: any arrangement of Available registers
\* and registers checked out one by one
SizingPools ==
  UNION {{[pool |-> [k \in 1..n |-> IF k \in inUse THEN InUse ELSE Available],
           checkOutSize |-> [i \in {k - 1 : k \in inUse} |-> 1],
           defaultPreventOverflow |-> 0] : inUse \in SUBSET (1..n)} :
         n \in 1..MaxSizingPool}

SizingProblems ==
  [DataTypeHalf : BOOLEAN, EnableMatrixInstruction : BOOLEAN,
   numElementsPerBatchLimitedBySgprs : 1..MaxSgprLimit,
   BufferStore : BOOLEAN, beta : BOOLEAN, atomic : BOOLEAN, edge : BOOLEAN,
   gwvw : 1..2, hpaHalf : BOOLEAN, isOptNLL : BOOLEAN]

InitSizing ==
  /\ rp \in SizingPools
  /\ call = NoCall
  /\ live = EmptyBag
  /\ removed = {}
  /\ kernel = [pc |-> "globalWriteElements", exc |-> "none", overflowedResources |-> 0]

AfterSizing(sized, ss, p, lenElements) ==
  /\ rp' = sized.vgprPool
  /\ kernel' = [pc |-> IF sized.exc = "none" THEN "batches" ELSE "failed",
                exc |-> sized.exc,
                overflowedResources |-> sized.overflowedResources,
                p |-> p, ss |-> ss,
                computed |-> sized.computed,
                numElementsPerBatch |-> sized.numElementsPerBatch,
                remaining |-> lenElements,
                sizeAtSizing |-> Len(sized.vgprPool.pool)]
  /\ call' = [op |-> "sizing", setupExc |-> "none", sizeAfterSetup |-> 0]

SizeWith(vgprPool, ss, p, lenElements, lenFirstRow) ==
  AfterSizing(batchSizing(vgprPool, ss, p, lenElements, lenFirstRow), ss, p, lenElements)

SizeAfterStoreState(s0, p, lenElements, lenFirstRow) ==
  SizeWith(s0.vgprPool,
           [optSingleColVgpr |-> s0.optSingleColVgpr,
            optSharedColVgpr |-> s0.optSharedColVgpr,
            sharedColVgprs |-> s0.sharedColVgprs,
            cfg |-> StoreConstConfig(p.BufferStore, IF p.DataTypeHalf THEN 2 ELSE 4,
                                     s0.optSingleColVgpr, p.gwvw, p.beta, p.atomic)],
           p, lenElements, lenFirstRow)

\* globalWriteElements from the StoreState constructor to the size of the
\* batches (lines 10313-10431)
SizeBatches ==
  /\ kernel.pc = "globalWriteElements"
  /\ \E p \in SizingProblems, lenFirstRow \in 1..MaxElements, rows \in 1..2 :
       /\ p.hpaHalf => p.DataTypeHalf
       /\ SizeAfterStoreState(
            StoreState(rp,
                       [BufferStore |-> p.BufferStore, PackedC0 |-> 1, PackedC1 |-> 1,
                        UseInitialStridesCD |-> FALSE, StoreRemapVectorWidth |-> 0],
                       p.edge, p.atomic, lenFirstRow),
            p, lenFirstRow * rows, lenFirstRow)
  /\ UNCHANGED <<live, removed>>

AfterSizedBatch(setup, r, n) ==
  /\ rp' = r.pool
  /\ kernel' = [kernel EXCEPT !.pc = IF r.exc = "none" THEN "batches" ELSE "failed",
                              !.exc = r.exc,
                              !.remaining = @ - n]
  /\ call' = [op |-> "globalWriteBatch", setupExc |-> setup.exc,
              sizeAfterSetup |-> Len(setup.pool.pool)]

ReturnAfterSizedSetup(setup, n) ==
  AfterSizedBatch(setup, returnAfterSetup(kernel.ss, setup), n)

SizedBatchOf(n) ==
  ReturnAfterSizedSetup(
    setupStoreElementsForBatch(kernel.ss, BatchAcc(rp), 0, n, kernel.p.hpaHalf,
                               kernel.p.isOptNLL),
    n)

\* the next batch of the loop of lines 10472-10485
SizedWriteBatch ==
  /\ kernel.pc = "batches"
  /\ kernel.remaining > 0
  /\ SizedBatchOf(Min(kernel.numElementsPerBatch, kernel.remaining))
  /\ UNCHANGED <<live, removed>>

NextSizing ==
  \/ SizeBatches
  \/ SizedWriteBatch

SpecSizing == InitSizing /\ [][NextSizing]_vars

(***************************************************************************)
(* Properties of one RegisterPool (specification Spec)                     *)
(***************************************************************************)
CheckOuts == {"checkOut", "checkOutAligned"}

\* the slot indices of a range
Slots(r) == r.start..(r.start + r.size - 1)

\* the starts of the aligned, in-bounds, fully Available runs of length sz
Runs(p, sz, alignment) ==
  {i \in 0..(Len(p) - 1) :
     /\ i % alignment = 0
     /\ i + sz <= Len(p)
     /\ \A j \in i..(i + sz - 1) : At(p, j) = Available}

Lowest(S) == CHOOSE i \in S : \A k \in S : i <= k

\* C1: any two register ranges returned by a checkout and not yet checked
\* in are disjoint (a range returned twice overlaps itself).
C1_LiveRangesDisjoint ==
  /\ \A r \in BagToSet(live) : CopiesIn(r, live) = 1
  /\ \A r1, r2 \in BagToSet(live) : r1 # r2 => Slots(r1) \cap Slots(r2) = {}

\* C1 witness: two ranges are live, the later one returned by the
\* overflow-growth path.
C1_Witness ==
  /\ call.path = "overflow"
  /\ Cardinality(BagToSet(live)) >= 2

\* C2: every InUse slot lies inside a range returned by a checkout whose
\* checkIn has not yet occurred.
C2_InUseIsLive ==
  \A i \in 0..(Len(rp.pool) - 1) :
    At(rp.pool, i) = InUse => \E r \in BagToSet(live) : i \in Slots(r)

\* C2 witness: a range of two slots was just checked in while another slot is
\* still InUse.
C2_Witness ==
  /\ call.path = "checkedIn"
  /\ \E i \in 0..(Len(rp.pool) - 1) : At(rp.pool, i) = InUse
  /\ \E i \in 0..(Len(rp.pool) - 2) : At(rp.pool, i) = Available /\ At(rp.pool, i + 1) = Available

\* C3: the start index a checkout returns, on the found path and on the
\* overflow-growth path, is divisible by the alignment asked for.
C3_ReturnedStartAligned ==
  (call.op \in CheckOuts /\ call.exc = "none") => call.ret % call.alignment = 0

\* C3 witness: an overflow-growth checkout with alignment 2 that had to pad:
\* the slot below the returned start is Available padding.
C3_Witness ==
  /\ call.op = "checkOutAligned"
  /\ call.path = "overflow"
  /\ call.alignment = 2
  /\ call.ret >= 2
  /\ At(rp.pool, call.ret - 1) = Available

\* C4: when an aligned, in-bounds, fully Available run exists, the checkout
\* returns the lowest one, marks exactly its slots InUse, records
\* start -> size and leaves the pool size unchanged.
C4_FoundLowestRun ==
  [][LET sz == call'.size
         runs == Runs(rp.pool, sz, call'.alignment)
     IN (call'.op \in CheckOuts /\ runs # {}) =>
          LET i == Lowest(runs)
          IN /\ call'.exc = "none"
             /\ call'.ret = i
             /\ Len(rp'.pool) = Len(rp.pool)
             /\ \A k \in 0..(Len(rp.pool) - 1) :
                  At(rp'.pool, k) = IF k >= i /\ k < i + sz THEN InUse ELSE At(rp.pool, k)
             /\ DOMAIN rp'.checkOutSize = DOMAIN rp.checkOutSize \cup {i}
             /\ rp'.checkOutSize[i] = sz
             /\ \A k \in DOMAIN rp.checkOutSize \ {i} :
                  rp'.checkOutSize[k] = rp.checkOutSize[k]]_vars

\* C4 witness: an aligned checkout of two slots found its lowest run at
\* index 2.
C4_Witness ==
  /\ call.op = "checkOutAligned"
  /\ call.path = "found"
  /\ call.alignment = 2
  /\ call.size = 2
  /\ call.ret = 2

\* C5: when no aligned, in-bounds, fully Available run exists and
\* preventOverflow is true (given, or taken from the pool's default), the
\* checkout fails with the assertion error, returns no index and leaves the
\* slot statuses, the pool size and the checkout records unchanged.
C5_PreventedOverflowFails ==
  [][LET po == call'.preventOverflow
     IN (/\ call'.op \in CheckOuts
         /\ Runs(rp.pool, call'.size, call'.alignment) = {}
         /\ (po = 1 \/ (po = -1 /\ rp.defaultPreventOverflow = 1))) =>
          /\ call'.exc = "AssertionError"
          /\ call'.ret = -1
          /\ rp' = rp]_vars

\* C5 witness: an aligned checkout was refused although the pool holds an
\* Available slot (at an unaligned index).
C5_Witness ==
  /\ call.op = "checkOutAligned"
  /\ call.path = "prevented"
  /\ call.alignment = 2
  /\ \E i \in 0..(Len(rp.pool) - 1) : At(rp.pool, i) = Available

\* the smallest multiple of alignment that is >= x
RoundedUp(x, alignment) == CHOOSE m \in x..(x + alignment - 1) : m % alignment = 0

\* C6: on the overflow-growth path the checkout returns
\* (size() - availableBlockAtEnd()) rounded up to a multiple of alignment;
\* afterwards size() = start + size, the slots [start, start+size) are InUse
\* and the newly appended slots below start are Available.
C6_OverflowStartsAtTail ==
  [][call'.path = "overflow" =>
       LET start == RoundedUp(size(rp) - availableBlockAtEnd(rp), call'.alignment)
       IN /\ call'.ret = start
          /\ size(rp') = start + call'.size
          /\ \A i \in start..(start + call'.size - 1) : At(rp'.pool, i) = InUse
          /\ \A i \in size(rp)..(start - 1) : At(rp'.pool, i) = Available]_vars

\* C8: every slot is created Unavailable and afterwards changes status only
\* by Unavailable -> Available (add), Available -> InUse (checkout),
\* InUse -> Available (checkIn), Available -> Unavailable (remove).  A slot
\* that add appends is created Unavailable (line 152) and may be moved to
\* Available by the same add call.
LegalTransition(old, new, op) ==
  \/ old = new
  \/ old = Unavailable /\ new = Available /\ op = "add"
  \/ old = Available /\ new = InUse /\ op \in CheckOuts
  \/ old = InUse /\ new = Available /\ op = "checkIn"
  \/ old = Available /\ new = Unavailable /\ op = "remove"

C8_OnlyListedTransitions ==
  /\ \A i \in 0..(Len(rp.pool) - 1) : At(rp.pool, i) = Unavailable
  /\ [][/\ \A i \in 0..(Len(rp.pool) - 1) :
             LegalTransition(At(rp.pool, i), At(rp'.pool, i), call'.op)
        /\ \A i \in Len(rp.pool)..(Len(rp'.pool) - 1) :
             LegalTransition(Unavailable, At(rp'.pool, i), call'.op)]_vars

\* C8 as amended: as C8, except that the overflow-growth path of a checkout
\* creates slots directly as Available (the alignment padding below the
\* returned start) or InUse (from the returned start on).
C8_TransitionsWithOverflowGrowth ==
  /\ \A i \in 0..(Len(rp.pool) - 1) : At(rp.pool, i) = Unavailable
  /\ [][/\ \A i \in 0..(Len(rp.pool) - 1) :
             LegalTransition(At(rp.pool, i), At(rp'.pool, i), call'.op)
        /\ \A i \in Len(rp.pool)..(Len(rp'.pool) - 1) :
             IF call'.path = "overflow"
             THEN At(rp'.pool, i) = (IF i < call'.ret THEN Available ELSE InUse)
             ELSE LegalTransition(Unavailable, At(rp'.pool, i), call'.op)]_vars

\* C8 witness: an overflow-growth checkout of two slots with alignment 2
\* appended an Available padding slot and two InUse slots behind an
\* Unavailable slot.
C8_Witness ==
  /\ call.path = "overflow"
  /\ call.alignment = 2
  /\ call.size = 2
  /\ call.ret = 2
  /\ At(rp.pool, 0) = Unavailable
  /\ At(rp.pool, 1) = Available
  /\ At(rp.pool, 2) = InUse
  /\ At(rp.pool, 3) = InUse

\* C10: a double add, a remove whose range extends past the pool size and
\* a checkIn of a start that was never checked out only log a warning and
\* return normally.
C10_AnomaliesOnlyWarn ==
  (\/ call.op = "add" /\ call.warned
   \/ call.op = "remove" /\ call.path = "pastEnd"
   \/ call.op = "checkIn" /\ call.path = "neverCheckedOut") => call.exc = "none"

(***************************************************************************)
(* Property of removed slots (specification SpecRemoveHistory)             *)
(***************************************************************************)
\* C9: no slot of a range that remove covered inside the pool is returned by
\* a later checkout unless an add covering the slot happened in between,
\* whatever status the slot had when remove was called.
C9_RemovedNeverReturned ==
  (call.op \in CheckOuts /\ call.exc = "none") =>
     (call.ret..(call.ret + call.size - 1)) \cap removed = {}

(***************************************************************************)
(* Property of the pool size (specification SpecOptNLL)                    *)
(***************************************************************************)
\* C11: size() of a kernel's register pool never decreases, neither under
\* add, remove, checkOut, checkOutAligned or checkIn nor when the pool is
\* swapped back to its saved snapshot after the alternate (OptNLL) path.
C11_SizeNeverDecreases ==
  [][\A k \in Pools : size(kernel'[k]) >= size(kernel[k])]_vars

\* C11 witness: the vector pool was swapped back to a snapshot taken when it
\* was smaller: the snapshot was padded, so the pool keeps the size it grew
\* to on the alternate path, its last slot is Available and the registers
\* checked out on the alternate path are gone.
C11_Witness ==
  /\ kernel.padded
  /\ kernel.exercised = "vgprPool"
  /\ kernel.savedVgprPool = << >>
  /\ size(kernel.vgprPool) >= 3
  /\ At(kernel.vgprPool.pool, size(kernel.vgprPool) - 1) = Available
  /\ DOMAIN kernel.vgprPool.checkOutSize = {}
  /\ \A i \in 0..(size(kernel.vgprPool) - 2) : At(kernel.vgprPool.pool, i) = Unavailable

(***************************************************************************)
(* Properties of instruction selection (specification SpecSelect)          *)
(***************************************************************************)
Selected == call.op = "selectMemoryInstruction"

Catalog == memoryInstructions(kernel.BufferLoad)[call.operation]

\* C12: selectMemoryInstruction either returns the index of a catalog entry
\* whose blockWidth is <= the requested width, or raises the fatal error; it
\* never returns a too-wide entry or an index outside the catalog.
C12_SelectedFitsOrFatal ==
  Selected =>
    \/ /\ call.exc = "none"
       /\ call.ret \in 0..(Len(Catalog) - 1)
       /\ At(Catalog, call.ret).blockWidth <= call.width
    \/ /\ call.exc = "RuntimeError"
       /\ call.ret = -1

\* C12 witness: a combining local read of width 2 with stride 1 skipped the
\* too-wide ds_read_b128 and the two b64 entries and selected ds_read2_b32.
C12_Witness ==
  /\ Selected
  /\ call.operation = "LocalRead"
  /\ call.width = 8
  /\ call.combine
  /\ call.strides = <<1>>
  /\ call.ret = 3

StridesDivisible(e) ==
  \A k \in 1..Len(call.strides) : call.strides[k] % e.offsetMultiplier = 0

\* the index of the first catalog entry satisfying Q, if there is one
FirstOrFatal(Q(_)) ==
  LET S == {k \in 0..(Len(Catalog) - 1) : Q(At(Catalog, k))}
  IN IF S = {}
     THEN call.exc = "RuntimeError"
     ELSE call.exc = "none" /\ call.ret = Lowest(S)

\* qualification as C13 states it: the stride condition binds the entries
\* that support multiple offsets
QualifiesMultiOffset(e) ==
  /\ e.blockWidth <= call.width
  /\ call.combine => (e.numOffsets > 1 => StridesDivisible(e))
  /\ ~call.combine => (e.numAddresses <= 1 /\ e.numOffsets <= 1)

\* qualification with the stride condition binding every entry that takes an
\* offset operand
Qualifies(e) ==
  /\ e.blockWidth <= call.width
  /\ call.combine => (e.numOffsets >= 1 => StridesDivisible(e))
  /\ ~call.combine => (e.numAddresses <= 1 /\ e.numOffsets <= 1)

C14_SelectsNarrowest ==
  (Selected /\ call.exc = "none") =>
    \A k \in 0..(Len(Catalog) - 1) :
      Qualifies(At(Catalog, k)) => At(Catalog, k).blockWidth >= At(Catalog, call.ret).blockWidth

\* C14 as amended: the selected entry is the widest qualifying one: no other
\* qualifying entry of the operation kind has a larger blockWidth.
C14_SelectsWidest ==
  (Selected /\ call.exc = "none") =>
    \A k \in 0..(Len(Catalog) - 1) :
      Qualifies(At(Catalog, k)) => At(Catalog, k).blockWidth <= At(Catalog, call.ret).blockWidth

\* C14 witness: a local write of width 2 without combining selected
\* ds_write_b64 although the narrower b32, b16 and b8 entries qualify too.
C14_Witness ==
  /\ Selected
  /\ call.operation = "LocalWrite"
  /\ ~call.combine
  /\ call.width = 8
  /\ call.ret = 2
  /\ Qualifies(At(Catalog, 6))

(***************************************************************************)
(* Property of the GlobalSplitU loop counts (specification SpecGsu)        *)
(***************************************************************************)
RECURSIVE SumCounts(_, _)
SumCounts(c, n) == IF n = 0 THEN 0 ELSE c[n - 1]["loopCounter"] + SumCounts(c, n - 1)

AllCounted == \A g \in DOMAIN kernel.pc : kernel.pc[g] = "counted"

\* C15: for total count T and G = GlobalSplitU > 1 partitions, the loop
\* counts of the partitions sum to T, differ pairwise by at most 1, and
\* exactly the partitions with index < T mod G receive the larger count.
C15_GsuCountsPartitionTotal ==
  AllCounted =>
    LET G == kernel.GlobalSplitU
        T == kernel.total
        c == [g \in 0..(G - 1) |-> kernel.sgpr[g]["loopCounter"]]
    IN /\ SumCounts(kernel.sgpr, G) = T
       /\ \A g, h \in 0..(G - 1) : c[g] - c[h] <= 1
       /\ \A g \in 0..(G - 1) :
            c[g] = (IF g < T % G THEN (T \div G) + 1 ELSE T \div G)

\* C15 witness: 7 iterations split over 3 partitions as 3, 2, 2.
C15_Witness ==
  /\ AllCounted
  /\ kernel.total = 7
  /\ kernel.GlobalSplitU = 3
  /\ kernel.sgpr[0]["loopCounter"] = 3
  /\ kernel.sgpr[1]["loopCounter"] = 2
  /\ kernel.sgpr[2]["loopCounter"] = 2

(***************************************************************************)
(* Properties of the atomic retry loop (SpecAtomic, SpecAtomicFair)        *)
(***************************************************************************)
AllDone == \A w \in Writers : kernel.wave[w].pc = "done"

RECURSIVE SumOfContributions(_)
SumOfContributions(n) ==
  IF n = 0 THEN 0 ELSE kernel.wave[n].ValuC + SumOfContributions(n - 1)

\* every in-bounds address holds the original value plus all contributions,
\* and every writer's compare-and-swap took effect exactly once
AllContributionsApplied ==
  \A e \in ElementSet : \A l \in kernel.inBounds[e] :
    /\ kernel.D[e][l] = kernel.original + SumOfContributions(NWriters)
    /\ \A w \in Writers : kernel.wave[w].swapped[e][l] = 1

\* C16: with N concurrent writers running the emitted retry loop against the
\* same address, under any fair interleaving every writer's loop terminates
\* and the final value is the original value plus the sum of all
\* contributions, each applied exactly once.
C16_WritersConvergeToSum ==
  /\ <>AllDone
  /\ [](AllDone => AllContributionsApplied)

\* C16 as amended: the same for kernels generated with DisableAtomicFail off
\* (with the option on, the loop still terminates but lanes whose first
\* attempt failed are not retried).
C16_WritersConvergeToSumUnlessDisabled ==
  /\ <>AllDone
  /\ []((AllDone /\ ~kernel.DisableAtomicFail) => AllContributionsApplied)

\* C16 witness: all writers are done, one of them after losing a race and
\* retrying, and the destination holds the full sum.
C16_Witness ==
  /\ AllDone
  /\ ~kernel.DisableAtomicFail
  /\ AllContributionsApplied
  /\ \E w \in Writers : kernel.wave[w].attempts["e0"][0] >= 2

\* the step is the check of writer w's last round of compare-and-swaps
IsCheck(w) ==
  /\ kernel.wave[w].pc \in {"first", "loop"}
  /\ kernel.wave[w].pending = {}
  /\ kernel'.wave[w] # kernel.wave[w]

\* the parts of C17 that do not depend on why a lane leaves the mask: the
\* mask only loses lanes, and only lanes still in the mask that have not
\* succeeded issue a compare-and-swap in the loop
MaskShrinksAndGuardsRetries ==
  \A w \in Writers : \A e \in ElementSet :
    LET wv == kernel.wave[w]
        wv2 == kernel'.wave[w]
    IN /\ wv2.mask[e] \subseteq wv.mask[e]
       /\ \A l \in Lanes :
            wv2.attempts[e][l] > wv.attempts[e][l] =>
              /\ wv.swapped[e][l] = 0
              /\ wv.pc = "loop" => l \in wv.mask[e]

\* C17: each element's retry mask only ever loses lanes, a lane leaves the
\* mask exactly when its compare-and-swap returned the expected old value,
\* and a lane that has succeeded issues no further compare-and-swap for that
\* element while its sibling lanes keep retrying.
C17_LaneLeavesMaskOnSuccess ==
  [][/\ MaskShrinksAndGuardsRetries
     /\ \A w \in Writers : \A e \in ElementSet :
          LET wv == kernel.wave[w]
          IN /\ IsCheck(w) =>
                  \A l \in wv.mask[e] :
                    l \notin kernel'.wave[w].mask[e] <=> wv.ret[e][l] = wv.old[e][l]
             /\ ~IsCheck(w) => kernel'.wave[w].mask[e] = wv.mask[e]]_vars

\* C17 as amended: the same when DisableAtomicFail is off; with the option
\* on, the check of the first attempt empties every mask whatever the
\* compare-and-swaps returned.
C17_LaneLeavesMaskOnSuccessUnlessDisabled ==
  [][/\ MaskShrinksAndGuardsRetries
     /\ \A w \in Writers : \A e \in ElementSet :
          LET wv == kernel.wave[w]
          IN /\ IsCheck(w) =>
                  IF kernel.DisableAtomicFail /\ wv.pc = "first"
                  THEN kernel'.wave[w].mask[e] = {}
                  ELSE \A l \in wv.mask[e] :
                         l \notin kernel'.wave[w].mask[e] <=> wv.ret[e][l] = wv.old[e][l]
             /\ ~IsCheck(w) => kernel'.wave[w].mask[e] = wv.mask[e]]_vars

\* C17 witness: in a writer's retry loop lane 0 has succeeded and left the
\* mask while the retry of lane 1, whose first attempt failed, is pending.
C17_Witness ==
  \E w \in Writers :
    /\ ~kernel.DisableAtomicFail
    /\ kernel.wave[w].pc = "loop"
    /\ kernel.wave[w].mask["e0"] = {1}
    /\ kernel.wave[w].swapped["e0"][0] = 1
    /\ kernel.wave[w].swapped["e0"][1] = 0
    /\ kernel.wave[w].attempts["e0"][1] = 1
    /\ kernel.wave[w].pending = {<<"e0", 1>>}

(***************************************************************************)
(* Property of the addressing-mode selection (SpecStoreState)              *)
(***************************************************************************)
\* the three addressing modes, as the store code dispatches on them
SingleSharedAddress == call.optSingleColVgpr = 1

SharedPerColumn == call.optSharedColVgpr = 1

FullyIndependent == call.optSingleColVgpr = 0 /\ call.optSharedColVgpr = 0

\* C18: StoreState selects exactly one of the three addressing modes;
\* single-shared-address only when not edge, not atomic and at most one
\* packed dimension on each side; shared-per-column only when not edge and
\* not atomic; fully independent whenever edge masking or atomics are active.
C18_OneValidAddressingMode ==
  call.op = "StoreState" =>
    /\ call.exc = "none"
    /\ ~(SingleSharedAddress /\ SharedPerColumn)
    /\ SingleSharedAddress \/ SharedPerColumn \/ FullyIndependent
    /\ SingleSharedAddress =>
         (~call.edge /\ ~call.atomic /\ call.cfg.PackedC0 <= 1 /\ call.cfg.PackedC1 <= 1)
    /\ SharedPerColumn => (~call.edge /\ ~call.atomic)
    /\ (call.edge \/ call.atomic) => FullyIndependent

\* C18 witness: a buffer-store batch that is neither edge nor atomic, with
\* two packed dimensions on the column side, uses shared-per-column
\* addressing and has checked out one address register per column.
C18_Witness ==
  /\ call.op = "StoreState"
  /\ SharedPerColumn
  /\ call.cfg.PackedC0 = 2
  /\ call.numAddrVgpr = 2
  /\ call.sharedColVgprs >= 0
  /\ rp.checkOutSize[call.sharedColVgprs] = 2

(***************************************************************************)
(* Property of magic division (specification SpecMagicDiv)                 *)
(***************************************************************************)
MagicDivOps ==
  {"sMagicDiv", "sMagicDivAlg2", "V_MAGIC_DIV 1", "V_MAGIC_DIV 2",
   "scalarMagicDivExplicit"}

\* C19: for every static divisor n with its precomputed triple and every
\* unsigned 32-bit dividend d, each magic-division sequence (the
\* 64-bit-product form and the multiply-high, add-correction, shift form)
\* produces floor(d / n) exactly.
C19_MagicDivExact ==
  call.op \in MagicDivOps => call.quotient = floorDiv(call.dividend, call.divisor)

\* the dividends below 2^31 (bit 31 clear)
Below2p31(d) == d[4] < 128

\* the multiply-high, add-correction, shift form is exact for dividends
\* below 2^31, where its 32-bit sum cannot carry
MagicDivAlg2ExactBelow2p31 ==
  (call.op \in {"sMagicDivAlg2", "V_MAGIC_DIV 2", "scalarMagicDivExplicit"}
   /\ Below2p31(call.dividend))
    => call.quotient = floorDiv(call.dividend, call.divisor)

\* the 64-bit-product form is exact while dividend * divisor < 2^31
MagicDivExactForSmallProducts ==
  (call.op \in {"sMagicDiv", "V_MAGIC_DIV 1"}
   /\ isZero(lshr(mul64(call.dividend, Bytes(call.divisor, 4)), 31)))
    => call.quotient = floorDiv(call.dividend, call.divisor)

VgprOverflowed == size(kernel.vgprPool) > maxVgprs

VgprLeak ==
  \E i \in 0..(Len(kernel.vgprPool.pool) - 1) : At(kernel.vgprPool.pool, i) = InUse

\* C20: the vector register pool never exceeds the configured maximum (256)
\* in a kernel that is successfully generated: if the pool has grown past
\* the maximum, the generator raises the configuration-rejection error out
\* of the generation call.
C20_OverflowRaises ==
  (kernel.pc # "body" /\ VgprOverflowed) => kernel.exc # "none"

\* C20 as amended: a vector pool grown past the maximum raises nothing:
\* functionSuffix marks the kernel over-budget and returns (it raises only
\* for a leaked register), and functionSignature then reports the kernel
\* with a warning and disables its text; a kernel whose text is not
\* disabled has a vector pool within the maximum.
C20_OverflowMarksOverBudget ==
  /\ (kernel.pc \in {"done", "signed"} /\ VgprOverflowed) =>
       (kernel.overflowedResources # 0 /\ kernel.exc = "none" /\ ~VgprLeak)
  /\ (kernel.pc = "signed" /\ VgprOverflowed) => (kernel.warned /\ kernel.disabled)
  /\ (kernel.pc = "signed" /\ ~kernel.disabled) => ~VgprOverflowed

\* C20 witness: generation returned normally for a kernel whose vector pool
\* grew past the maximum; the kernel is marked and disabled.
C20_Witness ==
  /\ kernel.pc = "signed"
  /\ VgprOverflowed
  /\ kernel.overflowedResources = 1
  /\ kernel.disabled
  /\ kernel.exc = "none"

(***************************************************************************)
(* Property of scalar temporaries (specification SpecTmpSgpr)              *)
(***************************************************************************)
TmpOps == {"calculateLoopNumIter", "chooseGlobalWrite"}

\* C21: no emitted instruction references a register after it has been
\* checked in and before it is checked out again: a scalar temporary
\* obtained through getTmpSgpr is still checked out at the moment every
\* instruction that uses it is emitted.
C21_TmpCheckedOutWhenUsed ==
  call.op \in TmpOps =>
    \A i \in 1..Len(call.emitted) : call.emitted[i].checkedOut

\* where the interpreter defers finalization, the temporary is still
\* checked out when the instructions of the same routine are emitted
TmpCheckedOutWhenDeferred ==
  (call.op \in TmpOps /\ ~kernel.refcounting) =>
    \A i \in 1..Len(call.emitted) : call.emitted[i].checkedOut

(***************************************************************************)
(* Property of the registers of a store batch (specification SpecBatch)    *)
(***************************************************************************)
\* C22: every vector register range checked out while setting up a store
\* batch is checked in exactly once: per-element address and data ranges by
\* the end of that batch, StoreState's shared column-address range when the
\* StoreState is destroyed, whatever start index the pool returned,
\* including index 0.
C22_BatchRangesCheckedInOnce ==
  /\ ~kernel.warned
  /\ (call.op = "globalWriteBatch" /\ kernel.exc = "none") =>
       \A s \in call.outs : s \notin DOMAIN rp.checkOutSize
  /\ (kernel.pc = "batches" /\ kernel.ss.sharedColVgprs # -1) =>
       kernel.ss.sharedColVgprs \in DOMAIN rp.checkOutSize
  /\ kernel.pc = "deleted" => DOMAIN rp.checkOutSize = {}

\* the same when no range starts at register 0
NoRangeAtZero ==
  /\ kernel.pc \in {"batches", "deleted"} => kernel.ss.sharedColVgprs # 0
  /\ call.op = "globalWriteBatch" => 0 \notin call.outs

BatchRangesCheckedInOnceAboveZero ==
  [](NoRangeAtZero) => []C22_BatchRangesCheckedInOnce

\* a data range checked out at register 0 is still checked out when its
\* batch has ended
DataRangeAtZeroLeaked ==
  /\ call.op = "globalWriteBatch" /\ kernel.exc = "none"
  /\ kernel.ss.sharedColVgprs # 0
  /\ 0 \in call.outs /\ 0 \in DOMAIN rp.checkOutSize
(***************************************************************************)
(* Properties of the wait counts (specification SpecWait)                  *)
(***************************************************************************)
\* C23: at a wait point where both requested counts are non-negative, the
\* emitted wait enforces both bounds: when the wave has passed it, neither
\* the operations of global memory nor those of the scratchpad that are
\* still in flight exceed the requested count.
C23_WaitEnforcesBothCounts ==
  (call.op = "passed" /\ kernel.req.lgkmcnt >= 0 /\ kernel.req.vmcnt >= 0) =>
     /\ vmOutstanding(kernel) <= kernel.req.vmcnt
     /\ lgkmOutstanding(kernel) <= kernel.req.lgkmcnt

\* the scratchpad count alone is always enforced
WaitEnforcesLgkmcnt ==
  (call.op = "passed" /\ kernel.req.lgkmcnt >= 0) =>
     lgkmOutstanding(kernel) <= kernel.req.lgkmcnt

(***************************************************************************)
(* Property of the interleaved store waits (specification SpecStoreWait)   *)
(***************************************************************************)
\* the number of operations counted by vmcnt that the code issues after the
\* last load of element i and before position p
IssuedAfterLoad(i, p) ==
  LET lastLoad == CHOOSE k \in 1..Len(kernel.code) :
                    /\ kernel.code[k].op = "load" /\ kernel.code[k].elementIdx = i
                    /\ \A m \in (k + 1)..Len(kernel.code) :
                         ~(kernel.code[m].op = "load" /\ kernel.code[m].elementIdx = i)
  IN Cardinality({k \in (lastLoad + 1)..(p - 1) :
                     countsInVmcnt(kernel.code[k], kernel.SeparateVscnt)})

C25_ExecFullAtBatchEnd ==
  kernel.pc > Len(kernel.code) => kernel.exec = Lanes

\* a batch has ended after the mask had been narrowed
C25_Witness ==
  /\ kernel.pc > Len(kernel.code)
  /\ call.op = "s_mov_exec_full"
  /\ \E e \in 0..(kernel.n - 1) : kernel.mask[e] # Lanes

\* C26: with native atomic add, every element of an atomic store batch is
\* accumulated by exactly one native atomic-add instruction and no
\* compare-and-swap loop is emitted, for buffer and for flat addressing.
C26_OneAtomicAddPerElement ==
  (kernel.cfg.atomic /\ kernel.cfg.useAtomicAdd) =>
     /\ \A e \in 0..(kernel.n - 1), a \in 0..(kernel.cfg.numAvi - 1) :
          Cardinality({p \in 1..Len(kernel.code) :
             kernel.code[p].op = "atomic_add" /\ kernel.code[p].e = e
             /\ kernel.code[p].avi = a}) = 1
     /\ \A p \in 1..Len(kernel.code) : kernel.code[p].op # "cmpswap"
     /\ kernel.pc > Len(kernel.code) =>
          \A e \in 0..(kernel.n - 1), a \in 0..(kernel.cfg.numAvi - 1) :
             kernel.added[e][a] = 1

\* the same for buffer addressing only
AtomicAddPerElementBuffer ==
  kernel.cfg.BufferStore => C26_OneAtomicAddPerElement

(***************************************************************************)
(* Property of the buffer descriptors (specification SpecSrd)              *)
(***************************************************************************)
\* C27: every emitted sequence that advances the base of a buffer
\* descriptor moves its limit (or its 64-bit shadow limit) by the same
\* amount in the opposite direction, so base + limit is unchanged: for the
\* increment of the global reads and for the advance of the C and D
\* descriptors by output rows.
C27_BasePlusLimitUnchanged ==
  call.op \in {"incrementSrd", "incrementToNextRow"} =>
     baseplusLimit(kernel) = kernel.before

\* the increment of the global reads keeps base + limit
IncrementSrdKeepsBasePlusLimit ==
  call.op = "incrementSrd" => baseplusLimit(kernel) = kernel.before

HalfSmallBatchMarkedWithoutMI ==
  (call.op = "sizing" /\ kernel.p.DataTypeHalf /\ kernel.computed < 2
     /\ ~kernel.p.EnableMatrixInstruction) =>
     kernel.overflowedResources # 0

\* C29: with the elements per batch of the sizing step, the address and
\* data checkouts of every batch find free aligned space in the vector
\* pool: none grows the pool and none fails because of preventOverflow, for
\* every arrangement of the pool at sizing time.
C29_BatchCheckoutsFit ==
  call.op = "globalWriteBatch" =>
     /\ call.setupExc = "none"
     /\ call.sizeAfterSetup = kernel.sizeAtSizing

(***************************************************************************)
(* Property of the swap back (specification SpecOptNLL)                    *)
(***************************************************************************)
\* the snapshot of pool k
SavedPool(k) ==
  IF k = "vgprPool" THEN kernel.savedVgprPool[1] ELSE kernel.savedSgprPool[1]

\* pool k after the swap back is its snapshot, extended with Available slots
\* to exactly the size the pool had on the alternate path
RestoredExactly(k) ==
  /\ size(kernel'[k]) = Max(size(SavedPool(k)), size(kernel[k]))
  /\ \A i \in 0..(size(SavedPool(k)) - 1) :
       At(kernel'[k].pool, i) = At(SavedPool(k).pool, i)
  /\ \A i \in size(SavedPool(k))..(size(kernel'[k]) - 1) :
       At(kernel'[k].pool, i) = Available
  /\ kernel'[k].checkOutSize = SavedPool(k).checkOutSize

SwappedBack == kernel.savedVgprPool # << >> /\ kernel'.savedVgprPool = << >>

\* C30: when the alternate (OptNLL) store path is closed, each register
\* pool (vector and scalar) is replaced by its snapshot extended with
\* Available slots up to exactly the size the pool reached on the alternate
\* path: the restored size is the larger of the snapshot size and the
\* alternate-path size, every slot below the snapshot size has its snapshot
\* status, and the snapshot's checkout records are unchanged.
C30_SwapBackRestoresExactly ==
  [][SwappedBack => \A k \in Pools : RestoredExactly(k)]_vars

\* the vector pool is restored exactly
SwapBackRestoresVgprPoolExactly ==
  [][SwappedBack => RestoredExactly("vgprPool")]_vars

====
